---- MODULE Spec2Model ----
(***************************************************************************)
(* A model of the MicroTS compiler front end: the module resolver, the     *)
(* struct registry, the IR emitter, the generic-name mangler and the       *)
(* AST walker.  Strings are sequences of tokens (identifiers and           *)
(* punctuation); files are identified by <<directory, basename>>.          *)
(***************************************************************************)
EXTENDS Integers, Sequences, FiniteSets, TLC

\* ------------------------------------------------------------------------
\* Generic helpers
\* ------------------------------------------------------------------------

\* Array.prototype.includes
includes(seq, x) == \E i \in 1..Len(seq) : seq[i] = x

Range(seq) == {seq[i] : i \in 1..Len(seq)}

\* Map.prototype.set on a map kept as a function over its key set
MapSet(m, k, v) == [x \in (DOMAIN m) \cup {k} |-> IF x = k THEN v ELSE m[x]]

EmptyMap == [x \in {} |-> 0]

\* ========================================================================
\* ModuleResolver
\* ========================================================================

\* Number of distinct basenames among the source files
NumNames == 3
\* Number of import declarations in the whole source tree
MaxImports == 3

ModuleNames == 1..NumNames

\* The source tree: directory "a" holds one file per basename, directory
\* "b" holds a second file with the last basename (a/m3.ts and b/m3.ts).
FilePaths == ({"a"} \X ModuleNames) \cup {<<"b", NumNames>>}

\* Paths an import specifier can resolve to: the files, and one path with
\* no file behind it.
SpecifierPaths == FilePaths \cup {<<"b", 1>>}

\* import declarations: a relative specifier with named bindings
\* (import { f } from './x'), a relative specifier with any other clause
\* (default, namespace or side-effect import) and a non-relative specifier
ImportDecls ==
    [relative : {TRUE}, target : SpecifierPaths, clause : {"named"}]
    \cup [relative : {TRUE}, target : {<<"a", NumNames>>}, clause : {"other"}]
    \cup [relative : {FALSE}, target : {<<"a", 1>>}, clause : {"named"}]

VARIABLES
    files,          \* path -> sequence of import declarations of that file
    rPhase,         \* "source" while the tree is written, "done" after resolve()
    resolved,       \* ModuleResolver.resolved
    modules,        \* ModuleResolver.modules (name -> ModuleInfo)
    parseLog,       \* paths handed to the parser, in order
    order,          \* the list returned by resolve()
    resolveError,   \* "none", "notfound" or "circular"
    errorModule     \* module name carried by the circular-dependency error

resolverVars == <<files, rPhase, resolved, modules, parseLog, order,
                  resolveError, errorModule>>

entryPath == <<"a", 1>>

existsSync(p) == p \in FilePaths

getModuleName(filePath) == filePath[2]

\* parseImportDeclaration: one ImportInfo per named binding, nothing for a
\* non-relative specifier or a clause without named bindings
parseImportDeclaration(node, currentPath) ==
    IF ~node.relative THEN <<>>
    ELSE IF node.clause = "named"
         THEN << [localName |-> "f", exportedName |-> "f",
                  fromModule |-> getModuleName(node.target),
                  fromPath |-> node.target] >>
         ELSE <<>>

RECURSIVE resolveModule(_, _)
RECURSIVE forEachImport(_, _, _, _, _)

\* the forEachChild callback of resolveModule, over the remaining
\* import declarations of the file
forEachImport(st, absPath, decls, imports, dependencies) ==
    IF decls = <<>> \/ st.error # "none"
    THEN [st |-> st, imports |-> imports, dependencies |-> dependencies]
    ELSE LET importInfo == parseImportDeclaration(Head(decls), absPath) IN
         IF Len(importInfo) > 0
         THEN LET depName == importInfo[1].fromModule
                  deps2 == IF includes(dependencies, depName)
                           THEN dependencies
                           ELSE Append(dependencies, depName)
                  st2 == resolveModule(st, importInfo[1].fromPath)
              IN forEachImport(st2, absPath, Tail(decls),
                               imports \o importInfo, deps2)
         ELSE forEachImport(st, absPath, Tail(decls), imports, dependencies)

\* resolveModule with the path taken out of resolved again once its
\* imports are followed
resolveModuleUnmarking(st, absPath) ==
    IF st.error # "none" THEN st
    ELSE IF absPath \in st.resolved THEN st
    ELSE IF ~existsSync(absPath) THEN [st EXCEPT !.error = "notfound"]
    ELSE LET st1 == [st EXCEPT !.resolved = @ \cup {absPath},
                               !.parseLog = Append(@, absPath)]
             moduleName == getModuleName(absPath)
             r == forEachImport(st1, absPath, st.files[absPath], <<>>, <<>>)
             moduleInfo == [path |-> absPath, name |-> moduleName,
                            imports |-> r.imports,
                            dependencies |-> r.dependencies]
         IN IF r.st.error # "none" THEN r.st
            ELSE [r.st EXCEPT !.modules = MapSet(@, moduleName, moduleInfo),
                              !.resolved = @ \ {absPath}]

resolveModule(st, absPath) ==
    IF st.error # "none" THEN st
    ELSE IF absPath \in st.resolved THEN st
    ELSE IF ~existsSync(absPath) THEN [st EXCEPT !.error = "notfound"]
    ELSE LET st1 == [st EXCEPT !.resolved = @ \cup {absPath},
                               !.parseLog = Append(@, absPath)]
             moduleName == getModuleName(absPath)
             r == forEachImport(st1, absPath, st.files[absPath], <<>>, <<>>)
             moduleInfo == [path |-> absPath, name |-> moduleName,
                            imports |-> r.imports,
                            dependencies |-> r.dependencies]
         IN IF r.st.error # "none" THEN r.st
            ELSE [r.st EXCEPT !.modules = MapSet(@, moduleName, moduleInfo)]

RECURSIVE visit(_, _, _)
RECURSIVE visitDeps(_, _, _)

visitDeps(mods, vs, deps) ==
    IF deps = <<>> \/ vs.error # "none" THEN vs
    ELSE visitDeps(mods, visit(mods, vs, Head(deps)), Tail(deps))

\* the visit closure of getCompilationOrder
visit(mods, vs, moduleName) ==
    IF vs.error # "none" THEN vs
    ELSE IF moduleName \in vs.visited THEN vs
    ELSE IF moduleName \in vs.visiting
         THEN [vs EXCEPT !.error = "circular", !.errorModule = moduleName]
    ELSE IF moduleName \notin DOMAIN mods THEN vs
    ELSE LET moduleInfo == mods[moduleName]
             vs1 == [vs EXCEPT !.visiting = @ \cup {moduleName}]
             vs2 == visitDeps(mods, vs1, moduleInfo.dependencies)
         IN IF vs2.error # "none" THEN vs2
            ELSE [vs2 EXCEPT !.visiting = @ \ {moduleName},
                             !.visited = @ \cup {moduleName},
                             !.result = Append(@, moduleInfo)]

Reverse(seq) == [i \in 1..Len(seq) |-> seq[Len(seq) + 1 - i]]

\* a compilation order that starts with the entry module
getCompilationOrderEntryFirst(mods) ==
    LET vs == visit(mods, [result |-> <<>>, visited |-> {}, visiting |-> {},
                           error |-> "none", errorModule |-> 0],
                    getModuleName(entryPath))
    IN [vs EXCEPT !.result = Reverse(@)]

getCompilationOrder(mods) ==
    visit(mods, [result |-> <<>>, visited |-> {}, visiting |-> {},
                 error |-> "none", errorModule |-> 0],
          getModuleName(entryPath))

ResolverInit ==
    /\ files = [p \in FilePaths |-> <<>>]
    /\ rPhase = "source"
    /\ resolved = {}
    /\ modules = EmptyMap
    /\ parseLog = <<>>
    /\ order = <<>>
    /\ resolveError = "none"
    /\ errorModule = 0

TotalImports == LET RECURSIVE Sum(_)
                    Sum(S) == IF S = {} THEN 0
                              ELSE LET p == CHOOSE q \in S : TRUE
                                   IN Len(files[p]) + Sum(S \ {p})
                IN Sum(FilePaths)

\* files named by some relative import declaration written so far
Imported == {d.target : d \in {x \in UNION {Range(files[q]) : q \in FilePaths} :
                                  x.relative}}

\* The source tree before the compiler runs: one more import declaration
\* is written at the end of the entry file or of a file that some
\* declaration already imports (no other file is ever read).
WriteImport(p, decl) ==
    /\ rPhase = "source"
    /\ TotalImports < MaxImports
    /\ p = entryPath \/ p \in Imported
    /\ files' = [files EXCEPT ![p] = Append(@, decl)]
    /\ UNCHANGED <<rPhase, resolved, modules, parseLog, order, resolveError,
                   errorModule>>

\* ModuleResolver.resolve(): resolveModule(entryPath), then
\* getCompilationOrder(); an exception leaves no returned list.
Resolve ==
    /\ rPhase = "source"
    /\ LET st == resolveModule([files |-> files, resolved |-> {},
                                modules |-> EmptyMap, parseLog |-> <<>>,
                                error |-> "none"], entryPath)
           vs == getCompilationOrder(st.modules)
       IN /\ resolved' = st.resolved
          /\ modules' = st.modules
          /\ parseLog' = st.parseLog
          /\ resolveError' = IF st.error # "none" THEN st.error ELSE vs.error
          /\ errorModule' = IF st.error # "none" THEN 0 ELSE vs.errorModule
          /\ order' = IF st.error = "none" /\ vs.error = "none"
                      THEN vs.result ELSE <<>>
    /\ rPhase' = "done"
    /\ UNCHANGED files

ResolverNext ==
    \/ \E p \in FilePaths, decl \in ImportDecls : WriteImport(p, decl)
    \/ Resolve


\* ========================================================================
\* Strings as token sequences
\* ========================================================================

endsWith(str, tok) == Len(str) > 0 /\ str[Len(str)] = tok

startsWith(str, tok) == Len(str) > 0 /\ str[1] = tok

\* str.replace(/\*$/, "")
stripStar(str) == IF endsWith(str, "*") THEN SubSeq(str, 1, Len(str) - 1) ELSE str

\* str.replace(/^\%/, "")
stripPercent(str) == IF startsWith(str, "%") THEN Tail(str) ELSE str

\* array.join(sep)
RECURSIVE join(_, _)
join(strs, sep) ==
    IF strs = <<>> THEN <<>>
    ELSE IF Len(strs) = 1 THEN strs[1]
    ELSE strs[1] \o <<sep>> \o join(Tail(strs), sep)

\* String.prototype.toLowerCase on the identifiers of the model
ToLower(tok) ==
    CASE tok = "A" -> "a" [] tok = "B" -> "b" [] tok = "C" -> "c"
      [] tok = "R" -> "r" [] tok = "Box" -> "box" [] tok = "Pair" -> "pair"
      [] OTHER -> tok

toLowerCase(str) == [i \in 1..Len(str) |-> ToLower(str[i])]

\* Number.prototype.toString
RECURSIVE toString(_)
toString(n) ==
    LET digit == <<"0", "1", "2", "3", "4", "5", "6", "7", "8", "9">>[(n % 10) + 1]
    IN IF n < 10 THEN <<digit>> ELSE Append(toString(n \div 10), digit)

\* ========================================================================
\* TypeMapper
\* ========================================================================

RECURSIVE mapType(_)
mapType(tsType) ==
    LET lower == toLowerCase(tsType) IN
    CASE lower = <<"number">> -> <<"i32">>
      [] lower = <<"i32">> -> <<"i32">>
      [] lower = <<"i64">> -> <<"i64">>
      [] lower = <<"f32">> -> <<"float">>
      [] lower = <<"f64">> -> <<"double">>
      [] lower = <<"boolean">> -> <<"i1">>
      [] lower = <<"bool">> -> <<"i1">>
      [] lower = <<"string">> -> <<"i8", "*">>
      [] lower = <<"void">> -> <<"void">>
      [] lower = <<"number", "[]">> -> <<"i32", "*">>
      [] OTHER -> IF endsWith(tsType, "[]")
                  THEN mapType(SubSeq(tsType, 1, Len(tsType) - 1)) \o <<"*">>
                  ELSE <<"i32">>

\* ========================================================================
\* StructRegistry.  The structs Map is kept as the sequence of its values
\* in insertion order (the order Map.keys() iterates).
\* ========================================================================

structsHas(structs, name) == \E i \in 1..Len(structs) : structs[i].name = name

structsGet(structs, name) ==
    structs[CHOOSE i \in 1..Len(structs) : structs[i].name = name]

\* Map.set: a new key goes last, an existing key keeps its place
structsSet(structs, name, def) ==
    IF structsHas(structs, name)
    THEN [i \in 1..Len(structs) |->
             IF structs[i].name = name THEN def ELSE structs[i]]
    ELSE Append(structs, def)

\* a pointer field counted as four bytes
getTypeSizePtr4(structs, llvmType) ==
    IF endsWith(llvmType, "*") THEN 4
    ELSE CASE llvmType = <<"i1">> -> 1
           [] llvmType = <<"i8">> -> 1
           [] llvmType = <<"i16">> -> 2
           [] llvmType = <<"i32">> -> 4
           [] llvmType = <<"i64">> -> 8
           [] llvmType = <<"float">> -> 4
           [] llvmType = <<"double">> -> 8
           [] OTHER -> 8

getTypeSize(structs, llvmType) ==
    IF endsWith(llvmType, "*") THEN 8
    ELSE CASE llvmType = <<"i1">> -> 1
           [] llvmType = <<"i8">> -> 1
           [] llvmType = <<"i16">> -> 2
           [] llvmType = <<"i32">> -> 4
           [] llvmType = <<"i64">> -> 8
           [] llvmType = <<"float">> -> 4
           [] llvmType = <<"double">> -> 8
           [] OTHER -> LET structName == stripPercent(llvmType) IN
                       IF structsHas(structs, structName)
                       THEN structsGet(structs, structName).size
                       ELSE 8

\* the loop of register(): the StructField list and the running offset
RECURSIVE registerFields(_, _, _, _)
registerFields(structs, fields, structFields, offset) ==
    IF Len(structFields) = Len(fields)
    THEN [fields |-> structFields, offset |-> offset]
    ELSE LET i == Len(structFields)
             f == fields[i + 1]
             size == getTypeSize(structs, f.llvmType)
         IN registerFields(structs, fields,
                Append(structFields,
                       [name |-> f.name, type |-> f.llvmType,
                        tsType |-> f.tsType, index |-> i,
                        offset |-> offset, size |-> size]),
                offset + size)

register(structs, name, fields) ==
    LET r == registerFields(structs, fields, <<>>, 0)
        structDef == [name |-> name, fields |-> r.fields, size |-> r.offset,
                      llvmType |-> <<"{">> \o join([i \in 1..Len(r.fields) |->
                                                       r.fields[i].type], ",")
                                   \o <<"}">>,
                      llvmPtrType |-> <<"%">> \o name \o <<"*">>]
    IN structsSet(structs, name, structDef)

isStruct(structs, typeName) ==
    structsHas(structs, stripPercent(stripStar(typeName)))

RECURSIVE visitStruct(_, _, _)
RECURSIVE visitStructFields(_, _, _)

visitStructFields(structs, vs, fields) ==
    IF fields = <<>> \/ vs.error # "none" THEN vs
    ELSE LET fieldTypeName == stripPercent(stripStar(Head(fields).type))
             vs2 == IF structsHas(structs, fieldTypeName)
                    THEN visitStruct(structs, vs, fieldTypeName)
                    ELSE vs
         IN visitStructFields(structs, vs2, Tail(fields))

\* the visit closure of getTopologicalOrder
visitStruct(structs, vs, name) ==
    IF vs.error # "none" THEN vs
    ELSE IF name \in vs.visited THEN vs
    ELSE IF name \in vs.visiting
         THEN [vs EXCEPT !.error = "circular", !.errorName = name]
    ELSE IF ~structsHas(structs, name) THEN vs
    ELSE LET struct == structsGet(structs, name)
             vs1 == [vs EXCEPT !.visiting = @ \cup {name}]
             vs2 == visitStructFields(structs, vs1, struct.fields)
         IN IF vs2.error # "none" THEN vs2
            ELSE [vs2 EXCEPT !.visiting = @ \ {name},
                             !.visited = @ \cup {name},
                             !.result = Append(@, struct)]

RECURSIVE visitStructKeys(_, _, _)
visitStructKeys(structs, vs, i) ==
    IF i > Len(structs) \/ vs.error # "none" THEN vs
    ELSE visitStructKeys(structs, visitStruct(structs, vs, structs[i].name), i + 1)

\* the registered records in insertion order, with no visit of the fields
getTopologicalOrderUnvisited(structs) ==
    [result |-> structs, visited |-> {}, visiting |-> {}, error |-> "none",
     errorName |-> <<>>]

getTopologicalOrder(structs) ==
    visitStructKeys(structs, [result |-> <<>>, visited |-> {}, visiting |-> {},
                              error |-> "none", errorName |-> <<>>], 1)


\* ---- a StructRegistry called directly

VARIABLES
    registry,   \* StructRegistry.structs of a registry of its own
    lastCall    \* the last call on it: arguments, result, exception

registryVars == <<registry, lastCall>>

\* IR types of the fields handed to register()
FieldIRTypes ==
    {<<"i32">>, <<"%", "A", "*">>, <<"%", "B", "*">>, <<"%", "C", "*">>}

\* the field lists handed to register(): no field, or one field named f
RegisterFields ==
    {<<>>}
    \cup {<<[name |-> <<"f">>, tsType |-> t, llvmType |-> t]>> :
             t \in FieldIRTypes}

NoCall ==
    [op |-> "none", name |-> <<>>, previous |-> <<>>, error |-> "none",
     errorName |-> <<>>, result |-> <<>>]

RegistryInit ==
    /\ registry = <<>>
    /\ lastCall = NoCall

\* StructRegistry.register(name, fields); previous is the definition the
\* name had before the call
Register(name, fields) ==
    /\ registry' = register(registry, name, fields)
    /\ lastCall' = [NoCall EXCEPT
                       !.op = "register", !.name = name,
                       !.previous = IF structsHas(registry, name)
                                    THEN <<structsGet(registry, name)>>
                                    ELSE <<>>]

\* StructRegistry.getTopologicalOrder()
GetTopologicalOrder ==
    /\ lastCall' = [NoCall EXCEPT
                       !.op = "getTopologicalOrder",
                       !.error = getTopologicalOrder(registry).error,
                       !.errorName = getTopologicalOrder(registry).errorName,
                       !.result = getTopologicalOrder(registry).result]
    /\ UNCHANGED registry

RegistryNext ==
    \/ \E name \in {<<"A">>, <<"B">>, <<"C">>}, fields \in RegisterFields :
          Register(name, fields)
    \/ GetTopologicalOrder

\* ========================================================================
\* Emitter: struct type definitions
\* ========================================================================

VARIABLES
    structTypes     \* Emitter.structTypes, one token string per definition

addStructType(types, name, fieldTypes) ==
    Append(types, <<"%">> \o name \o <<"=", "type", "{">>
                  \o join(fieldTypes, ",") \o <<"}">>)

\* ========================================================================
\* ASTWalker: the records pass of walk() and the sizeof intrinsic
\* ========================================================================

\* Total number of property signatures in the interfaces of one file
MaxSourceFields == 3

RecordNames == {<<"A">>, <<"B">>, <<"C">>}

\* field types of a file that declares several interfaces
RefFieldTypes == {<<"number">>} \cup RecordNames

\* field types of a file that declares one interface
AllFieldTypes == RefFieldTypes \cup
    {<<"i64">>, <<"f32">>, <<"f64">>, <<"boolean">>, <<"string">>,
     <<"number", "[]">>}

PropertySignatures ==
    [type : AllFieldTypes, optional : {FALSE}]
    \cup [type : {<<"number">>}, optional : {TRUE}]

VARIABLES
    source,         \* the interface declarations of the file, in source order
    sPhase,         \* "source" while the file is written, "walked" after walk()
    structs,        \* ASTWalker.structRegistry
    walkError,      \* "none", "optional" or "circular"
    sizeofArg,      \* type argument of the last lowered sizeof<T>()
    sizeofResult    \* what that call lowered to: the literal, or <<"error">>

\* the k-th property of an interface is named f, ff, fff, ...
FieldName(k) == [j \in 1..k |-> "f"]

\* the member loop of visitInterfaceDeclaration
RECURSIVE visitMembers(_, _, _)
visitMembers(regs, members, fields) ==
    IF Len(fields) = Len(members) THEN fields
    ELSE LET member == members[Len(fields) + 1]
             tsType == member.type
             llvmType == IF isStruct(regs, tsType)
                         THEN <<"%">> \o tsType \o <<"*">>
                         ELSE mapType(tsType)
         IN visitMembers(regs, members,
                Append(fields, [name |-> FieldName(Len(fields) + 1),
                                tsType |-> tsType, llvmType |-> llvmType]))

visitInterfaceDeclaration(st, node) ==
    IF \E k \in 1..Len(node.members) : node.members[k].optional
    THEN [st EXCEPT !.error = "optional"]
    ELSE [st EXCEPT !.structs =
             register(@, node.name, visitMembers(st.structs, node.members, <<>>))]

\* first pass of walk(): every interface declaration in source order
RECURSIVE visitInterfaces(_, _)
visitInterfaces(st, decls) ==
    IF decls = <<>> \/ st.error # "none" THEN st
    ELSE visitInterfaces(visitInterfaceDeclaration(st, Head(decls)), Tail(decls))

RECURSIVE emitStructTypes(_, _)
emitStructTypes(types, defs) ==
    IF defs = <<>> THEN types
    ELSE emitStructTypes(
            addStructType(types, Head(defs).name,
                          [i \in 1..Len(Head(defs).fields) |->
                              Head(defs).fields[i].type]),
            Tail(defs))

structVars == <<structTypes, source, sPhase, structs, walkError, sizeofArg,
                sizeofResult>>

StructInit ==
    /\ source = <<>>
    /\ sPhase = "source"
    /\ structs = <<>>
    /\ structTypes = <<>>
    /\ walkError = "none"
    /\ sizeofArg = <<>>
    /\ sizeofResult = <<>>

SourceFields ==
    UNION {{<<i, k>> : k \in 1..Len(source[i].members)} : i \in 1..Len(source)}

\* The file before the compiler runs: one more interface declaration.
\* A file with several interfaces keeps to number- and record-typed fields.
WriteInterface(name) ==
    /\ sPhase = "source"
    /\ \A i \in 1..Len(source) :
          /\ source[i].name # name
          /\ \A k \in 1..Len(source[i].members) :
                source[i].members[k].type \in RefFieldTypes
    /\ source' = Append(source, [name |-> name, members |-> <<>>])
    /\ UNCHANGED <<sPhase, structs, structTypes, walkError, sizeofArg,
                   sizeofResult>>

\* one more property signature in the last interface of the file
WriteField(member) ==
    /\ sPhase = "source"
    /\ Len(source) >= 1
    /\ Cardinality(SourceFields) < MaxSourceFields
    /\ member.type \in RefFieldTypes \/ Len(source) = 1
    /\ source' = [source EXCEPT ![Len(source)].members = Append(@, member)]
    /\ UNCHANGED <<sPhase, structs, structTypes, walkError, sizeofArg,
                   sizeofResult>>

\* ASTWalker.walk() on a file of interface declarations: the records pass,
\* then the struct types in topological order.  An exception ends the walk.
Walk ==
    /\ sPhase = "source"
    /\ LET st == visitInterfaces([structs |-> <<>>, error |-> "none"], source)
           topo == getTopologicalOrder(st.structs)
       IN /\ structs' = st.structs
          /\ walkError' = IF st.error # "none" THEN st.error ELSE topo.error
          /\ structTypes' = IF st.error = "none" /\ topo.error = "none"
                            THEN emitStructTypes(structTypes, topo.result)
                            ELSE structTypes
    /\ sPhase' = "walked"
    /\ UNCHANGED <<source, sizeofArg, sizeofResult>>

\* visitCallExpression on sizeof<typeName>() in a function of the file
LowerSizeof(typeName) ==
    /\ sPhase = "walked"
    /\ walkError = "none"
    /\ sizeofArg' = typeName
    /\ sizeofResult' = IF structsHas(structs, typeName)
                       THEN toString(structsGet(structs, typeName).size)
                       ELSE <<"error">>
    /\ UNCHANGED <<source, sPhase, structs, structTypes, walkError>>

StructNext ==
    \/ \E name \in RecordNames : WriteInterface(name)
    \/ \E member \in PropertySignatures : WriteField(member)
    \/ Walk
    \/ \E typeName \in RecordNames : LowerSizeof(typeName)

\* ---- generic interfaces

\* interface Box<T> { ... }: the declaration with its type parameters
GenericInterface(members) ==
    [name |-> <<"Box">>, typeParameters |-> <<<<"T">>>>, members |-> members]

\* Box<number> and Box<Box<number>> as the text of a type node
GenericUses ==
    {<<"Box", "<", "number", ">">>,
     <<"Box", "<", "Box", "<", "number", ">", ">">>}

\* the member lists of up to two properties with the given types
MembersOf(types) ==
    {<<>>}
    \cup {<<[type |-> t, optional |-> FALSE]>> : t \in types}
    \cup {<<[type |-> t, optional |-> FALSE],
            [type |-> u, optional |-> FALSE]>> : t \in types, u \in types}

\* files declaring the template Box, a record A that uses it, or both
GenericSources ==
    {<<GenericInterface(members)>> :
        members \in MembersOf({<<"T">>, <<"number">>})}
    \cup {<<[name |-> <<"A">>, members |-> members]>> :
             members \in MembersOf(GenericUses)}
    \cup {<<GenericInterface(boxMembers),
            [name |-> <<"A">>, members |-> members]>> :
             boxMembers \in MembersOf({<<"T">>, <<"number">>}),
             members \in MembersOf(GenericUses \cup {<<"number">>})}

\* The file before the compiler runs, written at once
WriteSource(decls) ==
    /\ sPhase = "source"
    /\ source = <<>>
    /\ source' = decls
    /\ UNCHANGED <<sPhase, structs, structTypes, walkError, sizeofArg,
                   sizeofResult>>

GenericNext ==
    \/ \E decls \in GenericSources : WriteSource(decls)
    \/ Walk

\* ========================================================================
\* Emitter: extern declarations, and the externs pass of the walker
\* ========================================================================

\* Number of declare lines the Emitter holds
MaxDeclarations == 2

ExternNames == {<<"puts">>, <<"exit">>}

\* declare function name(parameters): returnType, as the parser hands it
\* to the walker; a rest parameter carries the dotDotDotToken
DeclareParameters ==
    { <<>>,
      << [type |-> <<"number">>, dotDotDotToken |-> FALSE] >>,
      << [type |-> <<"string">>, dotDotDotToken |-> FALSE] >>,
      << [type |-> <<"string">>, dotDotDotToken |-> FALSE],
         [type |-> <<"number", "[]">>, dotDotDotToken |-> TRUE] >> }

DeclareFunctions ==
    [name : ExternNames, type : {<<"number">>, <<"void">>},
     parameters : DeclareParameters]

VARIABLES
    declarations,   \* Emitter.declarations, one token string per declare line
    externFunctions \* ASTWalker.externFunctions (name -> ExternFunction)

externVars == <<declarations, externFunctions>>

addExternFunction(decls, name, returnType, params, isVariadic) ==
    LET variadicSuffix == IF isVariadic THEN <<",", "...">> ELSE <<>>
        decl == <<"declare">> \o returnType \o <<"@">> \o name \o <<"(">>
                \o params \o variadicSuffix \o <<")">>
    IN IF includes(decls, decl) THEN decls ELSE Append(decls, decl)

\* the parameter loop of visitDeclareFunction: rest parameters are skipped
RECURSIVE declareParams(_)
declareParams(parameters) ==
    IF parameters = <<>> THEN <<>>
    ELSE IF Head(parameters).dotDotDotToken THEN declareParams(Tail(parameters))
    ELSE <<mapType(Head(parameters).type)>> \o declareParams(Tail(parameters))

ExternInit ==
    /\ declarations = <<>>
    /\ externFunctions = EmptyMap

\* Emitter.addExternFunction called with IR-level arguments
AddExternFunction(name, returnType, params, isVariadic) ==
    /\ Len(declarations) < MaxDeclarations
    /\ declarations' = addExternFunction(declarations, name, returnType,
                                         params, isVariadic)
    /\ UNCHANGED externFunctions

\* ASTWalker.visitDeclareFunction on one bodyless function declaration
VisitDeclareFunction(node) ==
    /\ Len(declarations) < MaxDeclarations
    /\ LET llvmReturnType == mapType(node.type)
           params == declareParams(node.parameters)
           isVariadic == \E k \in 1..Len(node.parameters) :
                             node.parameters[k].dotDotDotToken
       IN /\ externFunctions' =
                 MapSet(externFunctions, node.name,
                        [name |-> node.name, returnType |-> llvmReturnType,
                         params |-> params, isVariadic |-> isVariadic])
          /\ declarations' = addExternFunction(declarations, node.name,
                                 llvmReturnType, join(params, ","), isVariadic)

ExternNext ==
    \/ \E name \in ExternNames, returnType \in {<<"i32">>, <<"void">>},
          params \in {<<>>, <<"i32">>, <<"i8", "*">>}, isVariadic \in BOOLEAN :
          AddExternFunction(name, returnType, params, isVariadic)
    \/ \E node \in DeclareFunctions : VisitDeclareFunction(node)

\* ========================================================================
\* Emitter: string constants.  A string is the sequence of its characters.
\* ========================================================================

\* Characters of the distinct string literals of a program, taken together
MaxStringChars == 3

\* a letter, the backslash, the letter n, the double quote
Chars == {"a", "\\", "n", "\""}

RECURSIVE StringsUpTo(_)
StringsUpTo(n) ==
    IF n = 0 THEN {<<>>}
    ELSE LET shorter == StringsUpTo(n - 1)
         IN shorter \cup {Append(str, c) : str \in shorter, c \in Chars}

StringLiterals == StringsUpTo(MaxStringChars)

VARIABLES
    stringConstants, \* Emitter.stringConstants in insertion order: value, name
    stringCounter,   \* Emitter.stringCounter
    strArg,          \* argument of the last addStringConstant call
    strResult,       \* its return value {name, length}
    firstResult      \* history: value -> what its first call returned

stringsHas(consts, value) == \E i \in 1..Len(consts) : consts[i].value = value

stringsGet(consts, value) ==
    consts[CHOOSE i \in 1..Len(consts) : consts[i].value = value].name

stringsSet(consts, value, name) ==
    IF stringsHas(consts, value)
    THEN [i \in 1..Len(consts) |->
             IF consts[i].value = value THEN [value |-> value, name |-> name]
             ELSE consts[i]]
    ELSE Append(consts, [value |-> value, name |-> name])

\* the loop of calculateByteLength from (0-based) index i with count len
RECURSIVE byteLengthFrom(_, _, _)
byteLengthFrom(str, i, len) ==
    IF i >= Len(str) THEN len
    ELSE IF str[i + 1] = "\\" /\ i + 1 < Len(str)
            /\ str[i + 2] \in {"n", "t", "r", "\\", "\""}
         THEN byteLengthFrom(str, i + 2, len + 1)
         ELSE byteLengthFrom(str, i + 1, len + 1)

calculateByteLength(str) == byteLengthFrom(str, 0, 0) + 1

\* addStringConstant without the lookup of an existing constant
addStringConstantAlwaysNew(consts, counter, value) ==
    LET name == <<"@.str.">> \o toString(counter)
    IN [consts |-> stringsSet(consts, value, name), counter |-> counter + 1,
        name |-> name, length |-> calculateByteLength(value)]

addStringConstant(consts, counter, value) ==
    IF stringsHas(consts, value)
    THEN [consts |-> consts, counter |-> counter,
          name |-> stringsGet(consts, value),
          length |-> calculateByteLength(value)]
    ELSE LET name == <<"@.str.">> \o toString(counter)
         IN [consts |-> stringsSet(consts, value, name),
             counter |-> counter + 1,
             name |-> name, length |-> calculateByteLength(value)]

RECURSIVE TotalChars(_)
TotalChars(consts) ==
    IF consts = <<>> THEN 0
    ELSE Len(Head(consts).value) + TotalChars(Tail(consts))

stringVars == <<stringConstants, stringCounter, strArg, strResult, firstResult>>

StringsInit ==
    /\ stringConstants = <<>>
    /\ stringCounter = 0
    /\ strArg = <<"none">>
    /\ strResult = [name |-> <<>>, length |-> 0]
    /\ firstResult = EmptyMap

\* Emitter.addStringConstant(value)
AddStringConstant(value) ==
    /\ \/ stringsHas(stringConstants, value)
       \/ TotalChars(stringConstants) + Len(value) <= MaxStringChars
    /\ LET r == addStringConstant(stringConstants, stringCounter, value)
       IN /\ stringConstants' = r.consts
          /\ stringCounter' = r.counter
          /\ strArg' = value
          /\ strResult' = [name |-> r.name, length |-> r.length]
          /\ firstResult' = IF value \in DOMAIN firstResult THEN firstResult
                            ELSE MapSet(firstResult, value,
                                        [name |-> r.name, length |-> r.length])

StringsNext == \E value \in StringLiterals : AddStringConstant(value)

\* ========================================================================
\* TypeResolver: generic type references and their mangled names
\* ========================================================================

\* Number of nodes of a type reference (Box<Box<number>> has three)
MaxTypeNodes == 4

GenericNames == {<<"Box">>, <<"Pair">>}

\* number is a keyword type node; i32 and f64 are references to the
\* prelude's aliases, without type arguments
KeywordTypeNodes ==
    {[kind |-> "keyword", typeName |-> <<"number">>, typeArguments |-> <<>>]}

AliasTypeNodes ==
    [kind : {"reference"}, typeName : {<<"i32">>, <<"f64">>},
     typeArguments : {<<>>}]

RECURSIVE TypeNodesOfSize(_)
RECURSIVE TypeArgumentsOfSize(_)
TypeNodesOfSize(n) ==
    IF n = 1 THEN KeywordTypeNodes \cup AliasTypeNodes
    ELSE {[kind |-> "reference", typeName |-> b, typeArguments |-> args] :
             b \in GenericNames, args \in TypeArgumentsOfSize(n - 1)}

TypeArgumentsOfSize(m) ==
    UNION {{<<t>> \o rest :
               t \in TypeNodesOfSize(k),
               rest \in (IF m = k THEN {<<>>} ELSE TypeArgumentsOfSize(m - k))} :
           k \in 1..m}

TypeNodes == UNION {TypeNodesOfSize(n) : n \in 1..MaxTypeNodes}

VARIABLES
    typeNode,   \* the type node being resolved
    parsed,     \* the ParsedTypeReference parseTypeNode returned for it
    typeMapper, \* the leaf mapper handed to getMangledName
    mangled,    \* the mangled name getMangledName returned for it
    mPhase      \* "idle", "parsed", "mangled"

mangleVars == <<typeNode, parsed, typeMapper, mangled, mPhase>>

\* node.getText(sourceFile)
RECURSIVE getText(_)
getText(node) ==
    IF node.typeArguments = <<>> THEN node.typeName
    ELSE node.typeName \o <<"<">>
         \o join([i \in 1..Len(node.typeArguments) |->
                     getText(node.typeArguments[i])], ",")
         \o <<">">>

RECURSIVE parseTypeNode(_)
parseTypeNode(node) ==
    IF node.kind = "reference"
    THEN [baseName |-> node.typeName,
          typeArgs |-> [i \in 1..Len(node.typeArguments) |->
                           parseTypeNode(node.typeArguments[i])],
          isGeneric |-> Len(node.typeArguments) > 0,
          text |-> getText(node)]
    ELSE [baseName |-> getText(node), typeArgs |-> <<>>,
          isGeneric |-> FALSE, text |-> getText(node)]

\* the optional typeMapper argument: absent, or TypeMapper.mapType
TypeMappers == {"undefined", "mapType"}

callTypeMapper(mapper, text) == IF mapper = "mapType" THEN mapType(text) ELSE text

\* getMangledName appending the arguments without the separator
RECURSIVE getMangledNameNoSeparator(_, _)
getMangledNameNoSeparator(p, mapper) ==
    IF ~p.isGeneric
    THEN IF mapper # "undefined" THEN callTypeMapper(mapper, p.text) ELSE p.text
    ELSE LET RECURSIVE loop(_, _)
             loop(acc, i) ==
                 IF i > Len(p.typeArgs) THEN acc
                 ELSE loop(acc \o getMangledNameNoSeparator(p.typeArgs[i], mapper),
                           i + 1)
         IN loop(p.baseName, 1)

RECURSIVE getMangledName(_, _)
getMangledName(p, mapper) ==
    IF ~p.isGeneric
    THEN IF mapper # "undefined" THEN callTypeMapper(mapper, p.text) ELSE p.text
    ELSE LET RECURSIVE loop(_, _)
             loop(acc, i) ==
                 IF i > Len(p.typeArgs) THEN acc
                 ELSE loop(acc \o <<"_">> \o getMangledName(p.typeArgs[i], mapper),
                           i + 1)
         IN loop(p.baseName, 1)

MangleInit ==
    /\ typeNode = [kind |-> "keyword", typeName |-> <<"number">>,
                   typeArguments |-> <<>>]
    /\ parsed = parseTypeNode(typeNode)
    /\ typeMapper = "undefined"
    /\ mangled = <<>>
    /\ mPhase = "idle"

\* TypeResolver.parseTypeNode(node, sourceFile) on the type node of one
\* resolution; its mangled name is not computed yet
ParseTypeNode(node) ==
    /\ mPhase = "idle"
    /\ typeNode' = node
    /\ parsed' = parseTypeNode(node)
    /\ typeMapper' = "undefined"
    /\ mangled' = <<>>
    /\ mPhase' = "parsed"

\* TypeResolver.getMangledName(parsed, typeMapper)
GetMangledName(mapper) ==
    /\ mPhase = "parsed"
    /\ typeMapper' = mapper
    /\ mangled' = getMangledName(parsed, mapper)
    /\ mPhase' = "mangled"
    /\ UNCHANGED <<typeNode, parsed>>

MangleNext ==
    \/ \E node \in TypeNodes : ParseTypeNode(node)
    \/ \E mapper \in TypeMappers : GetMangledName(mapper)

\* ========================================================================
\* ASTWalker: function definitions (third pass), Context, Emitter buffer
\* ========================================================================

\* Function definitions and the statements of their bodies, taken together
MaxNodes == 3

\* Modules walked by one compilation after the first one
MaxModules == 2

VARIABLES
    currentModule,  \* ASTWalker.currentModule: the module of the walker
    importMap,      \* ASTWalker.importMap (local name -> mangled name)
    walkedModules   \* the modules the compilation walked before this one

compileVars == <<currentModule, importMap, walkedModules>>

\* the modules compileWithModules walks after the first one, app
LaterModules == {<<"lib">>, <<"util">>}

\* the names a call, an import, a function or an extern can carry
CalleeNames == {<<"puts">>, <<"area">>}

\* ImportInfo of import { exportedName as localName } from './fromModule'
ImportInfos(fromModules) ==
    [localName : CalleeNames, exportedName : CalleeNames,
     fromModule : fromModules]

registerImport(map, imp) ==
    MapSet(map, imp.localName, imp.fromModule \o <<"_">> \o imp.exportedName)

RECURSIVE registerImports(_, _)
registerImports(map, imports) ==
    IF imports = <<>> THEN map
    ELSE registerImports(registerImport(map, Head(imports)), Tail(imports))

CompileInit ==
    /\ currentModule = <<"app">>
    /\ importMap = EmptyMap
    /\ walkedModules = <<>>

NumericLiteral == [kind |-> "NumericLiteral", text |-> <<"1">>]

Statement(kind, expression, decls, children) ==
    [kind |-> kind, expression |-> expression, declarations |-> decls,
     initializer |-> <<>>, incrementor |-> <<>>, children |-> children]

\* return;   return 1;   1;   let x = 1;
SimpleStatements ==
    { Statement("ReturnStatement", <<>>, <<>>, <<>>),
      Statement("ReturnStatement", <<NumericLiteral>>, <<>>, <<>>),
      Statement("ExpressionStatement", <<NumericLiteral>>, <<>>, <<>>),
      Statement("VariableStatement", <<>>,
                <<[name |-> <<"x">>, type |-> <<>>,
                   initializer |-> <<NumericLiteral>>]>>, <<>>) }

RECURSIVE StatementsOfSize(_)
RECURSIVE StatementListsOfSize(_)
\* if (1) S   if (1) S else S   while (1) S   for (;;) S   { S... }
StatementsOfSize(n) ==
    IF n = 1 THEN SimpleStatements
    ELSE {Statement(kind, <<NumericLiteral>>, <<>>, <<body>>) :
             kind \in {"IfStatement", "WhileStatement"},
             body \in StatementsOfSize(n - 1)}
         \cup {Statement("ForStatement", <<>>, <<>>, <<body>>) :
                  body \in StatementsOfSize(n - 1)}
         \cup {Statement("Block", <<>>, <<>>, list) :
                  list \in StatementListsOfSize(n - 1)}
         \cup UNION {{Statement("IfStatement", <<NumericLiteral>>, <<>>,
                                <<thenStatement, elseStatement>>) :
                         thenStatement \in StatementsOfSize(k),
                         elseStatement \in StatementsOfSize(n - 1 - k)} :
                     k \in 1..(n - 2)}

StatementListsOfSize(m) ==
    IF m = 0 THEN {<<>>}
    ELSE UNION {{<<first>> \o rest :
                    first \in StatementsOfSize(k),
                    rest \in StatementListsOfSize(m - k)} : k \in 1..m}

RECURSIVE StatementSize(_)
RECURSIVE StatementListSize(_)
StatementSize(node) == 1 + StatementListSize(node.children)

StatementListSize(list) ==
    IF list = <<>> THEN 0
    ELSE StatementSize(Head(list)) + StatementListSize(Tail(list))

\* the bodies of each size
FunctionBodies == [m \in 0..(MaxNodes - 1) |-> StatementListsOfSize(m)]

Parameter(name, type) == [name |-> <<name>>, type |-> type]

\* function main(...) and function area(...), with their first parameters:
\* none; this typed as a record, as number, or untyped; an ordinary one
FunctionHeaders ==
    [name : {<<"main">>}, type : {<<"number">>, <<"void">>},
     parameters : {<<>>, <<Parameter("this", <<"A">>)>>}]
    \cup
    [name : {<<"area">>}, type : {<<"number">>, <<"void">>},
     parameters : {<<>>, <<Parameter("this", <<"A">>)>>,
                   <<Parameter("this", <<"number">>)>>,
                   <<Parameter("this", <<>>)>>,
                   <<Parameter("x", <<"number">>)>>}]

FunctionDeclaration(header, body) ==
    [name |-> header.name, type |-> header.type,
     parameters |-> header.parameters, body |-> body]

VARIABLES
    functions,         \* the function definitions of the file lowered so far
    buffer,            \* Emitter.buffer, one string per entry
    indentLevel,       \* Emitter.indentLevel
    context,           \* ASTWalker.context: scopes, tempCounter, labelCounter
    internalFunctions, \* ASTWalker.internalFunctions (name -> InternalFunction)
    methodRegistry     \* ASTWalker.methodRegistry (record -> name -> function)

walkerVars == <<functions, buffer, indentLevel, context, internalFunctions,
                methodRegistry>>

\* ---- Emitter; w carries buffer and indentLevel with the Context fields

RECURSIVE repeat(_, _)
repeat(str, n) == IF n = 0 THEN <<>> ELSE <<str>> \o repeat(str, n - 1)

\* once an exception is thrown (w.error) nothing more reaches the buffer
emitLine(w, text) ==
    IF w.error # "none" THEN w
    ELSE [w EXCEPT !.buffer = Append(@, repeat("    ", w.indentLevel) \o text
                                        \o <<"\n">>)]

indent(w) == [w EXCEPT !.indentLevel = @ + 1]

dedent(w) == IF w.indentLevel > 0 THEN [w EXCEPT !.indentLevel = @ - 1] ELSE w

emitModuleHeader(w, moduleName) ==
    emitLine(emitLine(emitLine(w,
        <<";", "ModuleID", "=", "'">> \o moduleName \o <<"'">>),
        <<"target", "triple", "=", "\"", "arm64-apple-macosx", "\"">>),
        <<>>)

emitFunctionEnd(w) == emitLine(emitLine(dedent(w), <<"}">>), <<>>)

emitReturn(w, type, value) == emitLine(w, <<"ret">> \o type \o value)

emitLabel(w, label) == indent(emitLine(dedent(w), label \o <<":">>))

emitBranch(w, label) == emitLine(w, <<"br", "label", "%">> \o label)

emitConditionalBranch(w, condition, trueLabel, falseLabel) ==
    emitLine(w, <<"br", "i1">> \o condition \o <<",", "label", "%">>
                \o trueLabel \o <<",", "label", "%">> \o falseLabel)

emitAlloca(w, resultVar, type) ==
    emitLine(w, resultVar \o <<"=", "alloca">> \o type)

emitBitcast(w, resultVar, fromType, value, toType) ==
    emitLine(w, resultVar \o <<"=", "bitcast">> \o fromType \o value
                \o <<"to">> \o toType)

emitStore(w, type, value, ptr) ==
    emitLine(w, <<"store">> \o type \o value \o <<",">> \o type \o <<"*">>
                \o ptr)

\* ---- Context

NewContext == [scopes |-> <<EmptyMap>>, tempCounter |-> 0, labelCounter |-> 0]

pushScope(w) == [w EXCEPT !.scopes = Append(@, EmptyMap)]

popScope(w) ==
    IF Len(w.scopes) > 1
    THEN [w EXCEPT !.scopes = SubSeq(@, 1, Len(@) - 1)]
    ELSE w

\* the Variable returned is kept in w.variable
declareVariable(w, name, llvmType) ==
    [w EXCEPT !.scopes[Len(w.scopes)] =
                  MapSet(@, name, [name |-> name, llvmName |-> <<"%">> \o name,
                                   llvmType |-> llvmType, isPointer |-> TRUE]),
              !.variable = [name |-> name, llvmName |-> <<"%">> \o name,
                            llvmType |-> llvmType, isPointer |-> TRUE]]

\* the register name returned is kept in w.value
nextTemp(w) ==
    [w EXCEPT !.tempCounter = @ + 1,
              !.value = <<"%", "t">> \o toString(w.tempCounter)]

\* the label returned is kept in w.value
nextLabel(w, prefix) ==
    [w EXCEPT !.labelCounter = @ + 1,
              !.value = <<prefix>> \o toString(w.labelCounter)]

\* ---- ASTWalker visitors; each returns the walker state after the visit,
\* ---- with the value a visitor returns in w.value

\* /^-?\d+$/.test(value)
isNumericText(value) ==
    /\ Len(value) > 0
    /\ \A i \in 1..Len(value) :
          \/ value[i] \in {"0", "1", "2", "3", "4", "5", "6", "7", "8", "9"}
          \/ i = 1 /\ value[i] = "-" /\ Len(value) > 1

\* an exception: the first one thrown is the one that ends the walk
throw(w, message) ==
    IF w.error # "none" THEN w ELSE [w EXCEPT !.error = message, !.value = <<>>]

RECURSIVE visitExpression(_, _)

\* the entry of internalFunctions whose mangledName is resolvedName
findByMangledName(funcs, resolvedName) ==
    IF \E k \in DOMAIN funcs : funcs[k].mangledName = resolvedName
    THEN <<funcs[CHOOSE k \in DOMAIN funcs :
                    funcs[k].mangledName = resolvedName]>>
    ELSE <<>>

resolution(resolvedName, returnType, paramTypes, isVariadic) ==
    [error |-> "none", resolvedName |-> resolvedName,
     returnType |-> returnType, paramTypes |-> paramTypes,
     isVariadic |-> isVariadic]

noResolution(message) ==
    [error |-> message, resolvedName |-> <<>>, returnType |-> <<>>,
     paramTypes |-> <<>>, isVariadic |-> FALSE]

paramTypesOf(funcInfo) ==
    [i \in 1..Len(funcInfo.params) |-> funcInfo.params[i].type]

resolveImported(found, resolvedName) ==
    IF found = <<>> THEN noResolution("Could not resolve function info")
    ELSE resolution(resolvedName, found[1].returnType, paramTypesOf(found[1]),
                  FALSE)

\* the resolution of an identifier callee: the import map, then the
\* internal functions, then the externs
resolveFunction(funcs, funcName) ==
    IF funcName \in DOMAIN importMap
    THEN resolveImported(findByMangledName(funcs, importMap[funcName]),
                         importMap[funcName])
    ELSE IF funcName \in DOMAIN funcs
    THEN resolution(funcs[funcName].mangledName, funcs[funcName].returnType,
                  paramTypesOf(funcs[funcName]), FALSE)
    ELSE IF funcName \in DOMAIN externFunctions
    THEN resolution(funcName, externFunctions[funcName].returnType,
                  externFunctions[funcName].params,
                  externFunctions[funcName].isVariadic)
    ELSE noResolution("Unknown function")

emitCall(w, resultVar, returnType, funcName, args) ==
    IF resultVar # <<>> /\ returnType # <<"void">>
    THEN emitLine(w, resultVar \o <<"=", "call">> \o returnType \o <<"@">>
                     \o funcName \o <<"(">> \o args \o <<")">>)
    ELSE emitLine(w, <<"call">> \o returnType \o <<"@">> \o funcName
                     \o <<"(">> \o args \o <<")">>)

emitVariadicCall(w, resultVar, returnType, funcName, args) ==
    IF resultVar # <<>> /\ returnType # <<"void">>
    THEN emitLine(w, resultVar \o <<"=", "call">> \o returnType
                     \o <<"(", "i8", "*", ",", "...", ")", "@">>
                     \o funcName \o <<"(">> \o args \o <<")">>)
    ELSE emitLine(w, <<"call">> \o returnType
                     \o <<"(", "i8", "*", ",", "...", ")", "@">>
                     \o funcName \o <<"(">> \o args \o <<")">>)

argumentType(paramTypes, i, arg) ==
    IF i <= Len(paramTypes) THEN paramTypes[i]
    ELSE IF arg.kind = "StringLiteral" THEN <<"i8", "*">>
    ELSE <<"i32">>

\* the argument loop: args holds the arguments lowered so far, and the
\* joined list is returned in w.value
RECURSIVE visitArguments(_, _, _, _)
pushArgument(e, arguments, paramTypes, args) ==
    visitArguments(e, arguments, paramTypes,
        Append(args, argumentType(paramTypes, Len(args) + 1,
                                  arguments[Len(args) + 1]) \o e.value))

visitArguments(w, arguments, paramTypes, args) ==
    IF Len(args) = Len(arguments) THEN [w EXCEPT !.value = join(args, ",")]
    ELSE pushArgument(visitExpression(w, arguments[Len(args) + 1]),
                      arguments, paramTypes, args)

returned(w, value) == [w EXCEPT !.value = value]

\* t.value is resultReg
emitResolvedCall(t, r, argsStr) ==
    returned(
        IF r.isVariadic
        THEN emitVariadicCall(t, IF r.returnType # <<"void">> THEN t.value
                                 ELSE <<>>,
                              r.returnType, r.resolvedName, argsStr)
        ELSE emitCall(t, IF r.returnType # <<"void">> THEN t.value ELSE <<>>,
                      r.returnType, r.resolvedName, argsStr),
        IF r.returnType # <<"void">> THEN t.value ELSE <<"0">>)

\* a.value is argsStr
callResolved(a, r) == emitResolvedCall(nextTemp(a), r, a.value)

lowerCall(w, node, r) ==
    IF r.error # "none" THEN throw(w, r.error)
    ELSE callResolved(visitArguments(w, node.arguments, r.paramTypes, <<>>), r)

\* lookupVariable with the scopes searched from the outermost one
RECURSIVE lookupOutermostFrom(_, _, _)
lookupOutermostFrom(scopes, name, i) ==
    IF i > Len(scopes) THEN <<>>
    ELSE IF name \in DOMAIN scopes[i] THEN <<scopes[i][name]>>
    ELSE lookupOutermostFrom(scopes, name, i + 1)

lookupOutermostFirst(scopes, name) == lookupOutermostFrom(scopes, name, 1)

\* Context.lookupVariable: innermost scope first; <<>> is undefined
RECURSIVE lookupFrom(_, _, _)
lookupFrom(scopes, name, i) ==
    IF i < 1 THEN <<>>
    ELSE IF name \in DOMAIN scopes[i] THEN <<scopes[i][name]>>
    ELSE lookupFrom(scopes, name, i - 1)

lookupVariable(scopes, name) == lookupFrom(scopes, name, Len(scopes))

emitLoad(w, resultVar, type, ptr) ==
    emitLine(w, resultVar \o <<"=", "load">> \o type \o <<",">> \o type
                \o <<"*">> \o ptr)

\* getStorageAddress of an identifier: t.value is loadedPtr, and stays the
\* ptr returned
loadPointer(t, variable) ==
    emitLoad(t, t.value, variable.llvmType, variable.llvmName)

\* receiverType leaving the pointer star off
receiverTypeByValue(variable) ==
    IF startsWith(stripStar(variable.llvmType), "%")
    THEN stripStar(variable.llvmType)
    ELSE <<"%">> \o stripStar(variable.llvmType)

\* ptrType, from the type getStorageAddress returned
receiverType(variable) ==
    IF startsWith(stripStar(variable.llvmType), "%")
    THEN stripStar(variable.llvmType) \o <<"*">>
    ELSE <<"%">> \o stripStar(variable.llvmType) \o <<"*">>

\* the argument loop of a method call: args starts with the receiver
RECURSIVE visitMethodArguments(_, _, _, _)
pushMethodArgument(e, arguments, params, args) ==
    visitMethodArguments(e, arguments, params,
        Append(args, (IF Len(args) < Len(params)
                      THEN params[Len(args) + 1].type
                      ELSE <<"i32">>) \o e.value))

visitMethodArguments(w, arguments, params, args) ==
    IF Len(args) = Len(arguments) + 1 THEN [w EXCEPT !.value = join(args, ",")]
    ELSE pushMethodArgument(visitExpression(w, arguments[Len(args)]),
                            arguments, params, args)

emitMethodCall(t, resultReg, methodInfo, argsStr) ==
    returned(emitCall(t, resultReg, methodInfo.returnType,
                      methodInfo.mangledName, argsStr),
             IF resultReg = <<>> THEN <<"0">> ELSE resultReg)

emitMethodCallInto(t, methodInfo, argsStr) ==
    emitMethodCall(t, t.value, methodInfo, argsStr)

\* a.value is argsStr
callMethod(a, methodInfo) ==
    IF methodInfo.returnType # <<"void">>
    THEN emitMethodCallInto(nextTemp(a), methodInfo, a.value)
    ELSE emitMethodCall(a, <<>>, methodInfo, a.value)

\* p.value is objAddr.ptr
callOnReceiver(p, node, variable, methodInfo) ==
    callMethod(visitMethodArguments(p, node.arguments, methodInfo.params,
                                    <<receiverType(variable) \o p.value>>),
               methodInfo)

\* variable is what lookupVariable returned for the receiver
lowerMethodCall(w, node, variable, structType) ==
    IF ~(/\ structType \in DOMAIN w.methodRegistry
         /\ node.callee \in DOMAIN w.methodRegistry[structType])
    THEN throw(w, "Unknown method")
    ELSE callOnReceiver(loadPointer(nextTemp(w), variable), node, variable,
                        w.methodRegistry[structType][node.callee])

\* obj.m(args): node.object is the receiver identifier, node.callee is m
visitMethodCallExpression(w, node) ==
    IF lookupVariable(w.scopes, node.object[1]) = <<>>
    THEN throw(w, "Undefined variable")
    ELSE lowerMethodCall(w, node, lookupVariable(w.scopes, node.object[1])[1],
             stripStar(stripPercent(
                 lookupVariable(w.scopes, node.object[1])[1].llvmType)))

\* a call: a property access callee is a method call, and an identifier
\* callee is resolved through the tables
visitCallExpression(w, node) ==
    IF node.object # <<>> THEN visitMethodCallExpression(w, node)
    ELSE lowerCall(w, node, resolveFunction(w.internalFunctions, node.callee))

\* tempReg = nextTemp(); emitLoad(tempReg, variable.llvmType, llvmName)
visitIdentifier(w, node) ==
    IF lookupVariable(w.scopes, node.text) = <<>>
    THEN throw(w, "Undefined variable")
    ELSE loadPointer(nextTemp(w), lookupVariable(w.scopes, node.text)[1])

visitExpression(w, node) ==
    IF node.kind = "NumericLiteral" THEN [w EXCEPT !.value = node.text]
    ELSE IF node.kind = "Identifier" THEN visitIdentifier(w, node)
    ELSE IF node.kind = "CallExpression" THEN visitCallExpression(w, node)
    ELSE throw(w, "Unsupported expression type")

\* resultReg = nextTemp(); emitLine(`${resultReg} = icmp ne i32 ${value}, 0`)
emitCompareWithZero(t, value) ==
    emitLine(t, t.value \o <<"=", "icmp", "ne", "i32">> \o value \o <<",", "0">>)

\* the value to test is w.value
ensureBooleanCondition(w) ==
    IF isNumericText(w.value) THEN emitCompareWithZero(nextTemp(w), w.value)
    ELSE w

isStructTypeNode(type) == type # <<>> /\ structsHas(structs, type)

\* the IR type of a variable or parameter from its type annotation
llvmTypeOf(type) ==
    IF type = <<>> THEN <<"i32">>
    ELSE IF structsHas(structs, type) THEN <<"%">> \o type \o <<"*">>
    ELSE mapType(type)

allocaVariable(w) == emitAlloca(w, w.variable.llvmName, w.variable.llvmType)

\* castedPtr = nextTemp(); emitBitcast(...); emitStore(...)
storeCasted(t, value) ==
    emitStore(emitBitcast(t, t.value, <<"i8", "*">>, value,
                          t.variable.llvmType),
              t.variable.llvmType, t.value, t.variable.llvmName)

\* e is the walker after the initializer was visited
storeInitializer(e, node) ==
    IF isStructTypeNode(node.type) THEN storeCasted(nextTemp(e), e.value)
    ELSE emitStore(e, e.variable.llvmType, e.value, e.variable.llvmName)

visitVariableDeclaration(w, node) ==
    IF node.initializer = <<>>
    THEN allocaVariable(declareVariable(w, node.name, llvmTypeOf(node.type)))
    ELSE storeInitializer(
             visitExpression(
                 allocaVariable(declareVariable(w, node.name,
                                                llvmTypeOf(node.type))),
                 node.initializer[1]),
             node)

RECURSIVE visitVariableDeclarations(_, _)
visitVariableDeclarations(w, decls) ==
    IF decls = <<>> THEN w
    ELSE visitVariableDeclarations(visitVariableDeclaration(w, Head(decls)),
                                   Tail(decls))

returnValue(e) == emitReturn(e, <<"i32">>, e.value)

visitReturnStatement(w, node) ==
    IF node.expression # <<>>
    THEN returnValue(visitExpression(w, node.expression[1]))
    ELSE emitReturn(w, <<"void">>, <<>>)

RECURSIVE visitStatement(_, _)
RECURSIVE visitStatements(_, _)

visitBlock(w, node) == popScope(visitStatements(pushScope(w), node.children))

\* visitIfStatement once the labels are taken and the condition is lowered
\* (c is the walker after ensureBooleanCondition, its result in c.value)
ifBlocks(node, thenLabel, elseLabel, endLabel, c) ==
    IF Len(node.children) = 2
    THEN emitLabel(
           emitBranch(
             visitStatement(
               emitLabel(
                 emitBranch(
                   visitStatement(
                     emitLabel(emitConditionalBranch(c, c.value, thenLabel,
                                                     elseLabel),
                               thenLabel),
                     node.children[1]),
                   endLabel),
                 elseLabel),
               node.children[2]),
             endLabel),
           endLabel)
    ELSE emitLabel(
           emitBranch(
             visitStatement(
               emitLabel(emitConditionalBranch(c, c.value, thenLabel, endLabel),
                         thenLabel),
               node.children[1]),
             endLabel),
           endLabel)

visitIfStatement(w, node) ==
    ifBlocks(node,
        nextLabel(w, "if.then").value,
        nextLabel(nextLabel(w, "if.then"), "if.else").value,
        nextLabel(nextLabel(nextLabel(w, "if.then"), "if.else"), "if.end").value,
        ensureBooleanCondition(
            visitExpression(
                nextLabel(nextLabel(nextLabel(w, "if.then"), "if.else"),
                          "if.end"),
                node.expression[1])))

\* the condition of a while loop, lowered in the block condLabel
whileCondition(l, node, condLabel) ==
    ensureBooleanCondition(
        visitExpression(emitLabel(emitBranch(l, condLabel), condLabel),
                        node.expression[1]))

\* visitWhileStatement once the condition is lowered
whileBlocks(node, condLabel, bodyLabel, endLabel, c) ==
    emitLabel(
      emitBranch(
        visitStatement(
          emitLabel(emitConditionalBranch(c, c.value, bodyLabel, endLabel),
                    bodyLabel),
          node.children[1]),
        condLabel),
      endLabel)

visitWhileStatement(w, node) ==
    whileBlocks(node,
        nextLabel(w, "while.cond").value,
        nextLabel(nextLabel(w, "while.cond"), "while.body").value,
        nextLabel(nextLabel(nextLabel(w, "while.cond"), "while.body"),
                  "while.end").value,
        whileCondition(
            nextLabel(nextLabel(nextLabel(w, "while.cond"), "while.body"),
                      "while.end"),
            node, nextLabel(w, "while.cond").value))

forInitializer(w, node) ==
    IF node.initializer = <<>> THEN w
    ELSE IF node.initializer[1].kind = "VariableDeclarationList"
    THEN visitVariableDeclarations(w, node.initializer[1].declarations)
    ELSE visitExpression(w, node.initializer[1])

forConditionBranch(c, bodyLabel, endLabel) ==
    emitConditionalBranch(c, c.value, bodyLabel, endLabel)

\* the block condLabel of a for loop; l is the walker after the labels
forCondition(l, node, condLabel, bodyLabel, endLabel) ==
    IF node.expression # <<>>
    THEN forConditionBranch(
             ensureBooleanCondition(
                 visitExpression(emitLabel(emitBranch(l, condLabel), condLabel),
                                 node.expression[1])),
             bodyLabel, endLabel)
    ELSE emitBranch(emitLabel(emitBranch(l, condLabel), condLabel), bodyLabel)

forIncrementor(b, node) ==
    IF node.incrementor # <<>> THEN visitExpression(b, node.incrementor[1])
    ELSE b

\* forBlocks with the incrementer ahead of the body
forBlocksIncrementFirst(node, condLabel, bodyLabel, endLabel, c) ==
    emitLabel(
      emitBranch(
        visitStatement(forIncrementor(emitLabel(c, bodyLabel), node),
                       node.children[1]),
        condLabel),
      endLabel)

\* visitForStatement once the block condLabel is emitted
forBlocks(node, condLabel, bodyLabel, endLabel, c) ==
    emitLabel(
      emitBranch(
        forIncrementor(visitStatement(emitLabel(c, bodyLabel),
                                      node.children[1]),
                       node),
        condLabel),
      endLabel)

\* visitForStatement after the initializer; w0 is the walker after it
forLabels(w0, node) ==
    forBlocks(node,
        nextLabel(w0, "for.cond").value,
        nextLabel(nextLabel(w0, "for.cond"), "for.body").value,
        nextLabel(nextLabel(nextLabel(w0, "for.cond"), "for.body"),
                  "for.end").value,
        forCondition(
            nextLabel(nextLabel(nextLabel(w0, "for.cond"), "for.body"),
                      "for.end"),
            node,
            nextLabel(w0, "for.cond").value,
            nextLabel(nextLabel(w0, "for.cond"), "for.body").value,
            nextLabel(nextLabel(nextLabel(w0, "for.cond"), "for.body"),
                      "for.end").value))

visitForStatement(w, node) == forLabels(forInitializer(w, node), node)

visitStatement(w, node) ==
    CASE node.kind = "ReturnStatement" -> visitReturnStatement(w, node)
      [] node.kind = "VariableStatement" ->
             visitVariableDeclarations(w, node.declarations)
      [] node.kind = "ExpressionStatement" ->
             visitExpression(w, node.expression[1])
      [] node.kind = "IfStatement" -> visitIfStatement(w, node)
      [] node.kind = "WhileStatement" -> visitWhileStatement(w, node)
      [] node.kind = "ForStatement" -> visitForStatement(w, node)
      [] node.kind = "Block" -> visitBlock(w, node)
      [] OTHER -> w

visitStatements(w, list) ==
    IF list = <<>> THEN w
    ELSE visitStatements(visitStatement(w, Head(list)), Tail(list))

\* the IR type of each parameter of a function definition
parameterTypes(parameters) ==
    [i \in 1..Len(parameters) |->
        [name |-> parameters[i].name, type |-> llvmTypeOf(parameters[i].type)]]

storeParameter(d, param) ==
    emitStore(allocaVariable(d), param.type,
              <<"%">> \o param.name \o <<".param">>, d.variable.llvmName)

RECURSIVE storeParameters(_, _)
storeParameters(w, params) ==
    IF params = <<>> THEN w
    ELSE storeParameters(
             storeParameter(declareVariable(w, Head(params).name,
                                            Head(params).type),
                            Head(params)),
             Tail(params))

\* first parameter named this, with a type annotation
isMethod(node) ==
    /\ Len(node.parameters) > 0
    /\ node.parameters[1].name = <<"this">>
    /\ node.parameters[1].type # <<>>

structTypeOf(node) == IF isMethod(node) THEN node.parameters[1].type ELSE <<>>

mangledNameOf(node) ==
    IF node.name = <<"main">> THEN <<"main">>
    ELSE IF isMethod(node) /\ structTypeOf(node) # <<>>
    THEN structTypeOf(node) \o <<"_">> \o node.name
    ELSE currentModule \o <<"_">> \o node.name

paramStrOf(params) ==
    join([i \in 1..Len(params) |->
             params[i].type \o <<"%">> \o params[i].name \o <<".param">>], ",")

funcInfoOf(node) ==
    [name |-> node.name, mangledName |-> mangledNameOf(node),
     returnType |-> mapType(node.type),
     params |-> parameterTypes(node.parameters)]

\* this.context = new Context()
resetContext(w) ==
    [w EXCEPT !.scopes = NewContext.scopes,
              !.tempCounter = NewContext.tempCounter,
              !.labelCounter = NewContext.labelCounter]

emitDefine(w, node) ==
    emitLine(emitLine(w,
        <<"define">> \o mapType(node.type) \o <<"@">> \o mangledNameOf(node)
        \o <<"(">> \o paramStrOf(parameterTypes(node.parameters))
        \o <<")", "{">>), <<"entry", ":">>)

registerFunction(w, node) ==
    [w EXCEPT
        !.methodRegistry =
            IF isMethod(node) /\ structTypeOf(node) # <<>>
            THEN MapSet(w.methodRegistry, structTypeOf(node),
                     MapSet(IF structTypeOf(node) \in DOMAIN w.methodRegistry
                            THEN w.methodRegistry[structTypeOf(node)]
                            ELSE EmptyMap,
                            node.name, funcInfoOf(node)))
            ELSE w.methodRegistry,
        !.internalFunctions = MapSet(@, node.name, funcInfoOf(node))]

closeVoidFunction(w, node) ==
    IF mapType(node.type) = <<"void">> THEN emitReturn(w, <<"void">>, <<>>)
    ELSE w

visitFunctionDeclaration(w, node) ==
    emitFunctionEnd(
      closeVoidFunction(
        visitBlock(
          registerFunction(
            storeParameters(emitDefine(resetContext(w), node),
                            parameterTypes(node.parameters)),
            node),
          [children |-> node.body]),
        node))

FunctionsInit ==
    /\ functions = <<>>
    /\ buffer = emitModuleHeader([buffer |-> <<>>, indentLevel |-> 0,
                                  error |-> "none"], currentModule).buffer
    /\ indentLevel = 0
    /\ context = NewContext
    /\ internalFunctions = EmptyMap
    /\ methodRegistry = EmptyMap

RECURSIVE FunctionNodes(_)
FunctionNodes(nodes) ==
    IF nodes = <<>> THEN 0
    ELSE 1 + StatementListSize(Head(nodes).body) + FunctionNodes(Tail(nodes))

\* ASTWalker.visitFunctionDeclaration on the next function definition of
\* the file, after the records pass
VisitFunctionDeclaration(node) ==
    /\ sPhase = "walked"
    /\ walkError = "none"
    /\ \A i \in 1..Len(functions) : functions[i].name # node.name
    /\ FunctionNodes(functions) + 1 + StatementListSize(node.body)
           <= MaxNodes
    /\ LET w == visitFunctionDeclaration(
                    [buffer |-> buffer, indentLevel |-> indentLevel,
                     scopes |-> context.scopes,
                     tempCounter |-> context.tempCounter,
                     labelCounter |-> context.labelCounter,
                     internalFunctions |-> internalFunctions,
                     methodRegistry |-> methodRegistry, error |-> "none",
                     value |-> <<>>, variable |-> <<>>],
                    node)
       IN /\ buffer' = w.buffer
          /\ indentLevel' = w.indentLevel
          /\ context' = [scopes |-> w.scopes, tempCounter |-> w.tempCounter,
                         labelCounter |-> w.labelCounter]
          /\ internalFunctions' = w.internalFunctions
          /\ methodRegistry' = w.methodRegistry
          /\ walkError' = w.error
    /\ functions' = Append(functions, node)
    /\ UNCHANGED <<structTypes, source, sPhase, structs, sizeofArg,
                   sizeofResult>>

WalkerNext ==
    \/ WriteInterface(<<"A">>) /\ UNCHANGED walkerVars
    \/ Walk /\ UNCHANGED walkerVars
    \/ \E header \in FunctionHeaders :
          \E m \in 0..(MaxNodes - 1 - FunctionNodes(functions)) :
             \E body \in FunctionBodies[m] :
                VisitFunctionDeclaration(FunctionDeclaration(header, body))

\* ========================================================================
\* Context: the scope stack on its own
\* ========================================================================

\* Scopes open at once, the global scope included
MaxScopes == 3

VariableNames == {<<"x">>, <<"y">>}

VariableTypes == {<<"i32">>, <<"double">>}

VARIABLES
    contextCall,  \* the last call on the Context and what it returned
    opened        \* history: per pushScope still open, what every name
                  \* looked up to when it was called

contextVars == <<contextCall, opened>>

\* lookupVariable(n) for every name n
lookupAll(scopes) == [n \in VariableNames |-> lookupVariable(scopes, n)]

ContextCall(op, name, result, closed, before, after) ==
    [op |-> op, name |-> name, result |-> result, closed |-> closed,
     before |-> before, after |-> after]

ContextInit ==
    /\ contextCall = ContextCall("none", <<>>, <<>>, <<>>, <<>>, <<>>)
    /\ opened = <<>>

\* Context.pushScope()
PushScope ==
    /\ Len(context.scopes) < MaxScopes
    /\ context' = [context EXCEPT
                      !.scopes = pushScope([scopes |-> context.scopes]).scopes]
    /\ contextCall' = ContextCall("pushScope", <<>>, <<>>, <<>>, <<>>, <<>>)
    /\ opened' = Append(opened, lookupAll(context.scopes))

\* Context.popScope(); closed is the scope the call removed, if any
PopScope ==
    /\ context' = [context EXCEPT
                      !.scopes = popScope([scopes |-> context.scopes]).scopes]
    /\ contextCall' =
          ContextCall("popScope", <<>>, <<>>,
                      IF opened = <<>> THEN <<>>
                      ELSE <<context.scopes[Len(context.scopes)]>>,
                      IF opened = <<>> THEN <<>>
                      ELSE <<opened[Len(opened)]>>,
                      lookupAll(context'.scopes))
    /\ opened' = IF opened = <<>> THEN opened
                 ELSE SubSeq(opened, 1, Len(opened) - 1)

\* Context.declareVariable(name, llvmType)
DeclareVariable(name, llvmType) ==
    /\ LET w == declareVariable([scopes |-> context.scopes,
                                 variable |-> <<>>], name, llvmType)
       IN /\ context' = [context EXCEPT !.scopes = w.scopes]
          /\ contextCall' = ContextCall("declareVariable", name,
                                        <<w.variable>>, <<>>, <<>>, <<>>)
    /\ UNCHANGED opened

\* Context.lookupVariable(name)
LookupVariable(name) ==
    /\ contextCall' = ContextCall("lookupVariable", name,
                                  lookupVariable(context.scopes, name),
                                  <<>>, <<>>, <<>>)
    /\ UNCHANGED <<context, opened>>

ContextNext ==
    /\ \/ PushScope
       \/ PopScope
       \/ \E name \in VariableNames, llvmType \in VariableTypes :
             DeclareVariable(name, llvmType)
       \/ \E name \in VariableNames : LookupVariable(name)
    /\ UNCHANGED <<functions, buffer, indentLevel, internalFunctions,
                   methodRegistry>>

\* ========================================================================
\* Context: the two counters on their own
\* ========================================================================

\* nextTemp and nextLabel calls on one Context
MaxIssued == 11

\* prefixes handed to nextLabel: the default "L", and "L1"
LabelPrefixes == {"L", "L1"}

\* the characters of a prefix
prefixCharacters(prefix) ==
    CASE prefix = "L" -> <<"L">>
      [] prefix = "L1" -> <<"L", "1">>

\* `${prefix}${counter}` as the string it is, one character per element
labelText(label) == prefixCharacters(Head(label)) \o Tail(label)

VARIABLES
    issuedTemps,  \* what nextTemp returned since the Context was created
    issuedLabels  \* what nextLabel returned since then, as strings

counterVars == <<issuedTemps, issuedLabels>>

CountersInit ==
    /\ issuedTemps = <<>>
    /\ issuedLabels = <<>>

\* Context.nextTemp()
NextTemp ==
    /\ context.tempCounter + context.labelCounter < MaxIssued
    /\ LET w == nextTemp([tempCounter |-> context.tempCounter,
                          value |-> <<>>])
       IN /\ context' = [context EXCEPT !.tempCounter = w.tempCounter]
          /\ issuedTemps' = Append(issuedTemps, w.value)
    /\ UNCHANGED issuedLabels

\* Context.nextLabel(prefix)
NextLabel(prefix) ==
    /\ context.tempCounter + context.labelCounter < MaxIssued
    /\ LET w == nextLabel([labelCounter |-> context.labelCounter,
                           value |-> <<>>], prefix)
       IN /\ context' = [context EXCEPT !.labelCounter = w.labelCounter]
          /\ issuedLabels' = Append(issuedLabels, labelText(w.value))
    /\ UNCHANGED issuedTemps

\* visitFunctionDeclaration on the next function: this.context = new Context()
NewFunctionContext ==
    /\ context # NewContext
    /\ LET w == resetContext([scopes |-> context.scopes,
                              tempCounter |-> context.tempCounter,
                              labelCounter |-> context.labelCounter])
       IN context' = [scopes |-> w.scopes, tempCounter |-> w.tempCounter,
                      labelCounter |-> w.labelCounter]
    /\ issuedTemps' = <<>>
    /\ issuedLabels' = <<>>

CountersNext ==
    /\ \/ NextTemp
       \/ \E prefix \in LabelPrefixes : NextLabel(prefix)
       \/ NewFunctionContext
    /\ UNCHANGED <<functions, buffer, indentLevel, internalFunctions,
                   methodRegistry>>

\* ========================================================================
\* Array types in the declared types of fields, parameters and variables
\* ========================================================================

\* Number of [] suffixes on a declared type
MaxArrayDepth == 2

ElementTypes == {<<"number">>, <<"string">>, <<"boolean">>, <<"A">>}

RECURSIVE ArrayTypes(_)
ArrayTypes(depth) ==
    IF depth = 0 THEN ElementTypes
    ELSE ArrayTypes(depth - 1)
         \cup {Append(t, "[]") : t \in ArrayTypes(depth - 1)}

DeclaredTypes == ArrayTypes(MaxArrayDepth)

\* interface A {}  interface B { f: T }
ArraySources ==
    {<<[name |-> <<"A">>, members |-> <<>>],
       [name |-> <<"B">>,
        members |-> <<[type |-> t, optional |-> FALSE]>>]>> :
        t \in DeclaredTypes}

\* function run(p: T): void { let x: U; }
ArrayFunctions ==
    {FunctionDeclaration(
        [name |-> <<"run">>, type |-> <<"void">>,
         parameters |-> <<Parameter("p", t)>>],
        <<Statement("VariableStatement", <<>>,
                    <<[name |-> <<"x">>, type |-> u, initializer |-> <<>>]>>,
                    <<>>)>>) :
        t \in DeclaredTypes, u \in DeclaredTypes}

ArrayNext ==
    \/ \E decls \in ArraySources : WriteSource(decls) /\ UNCHANGED walkerVars
    \/ Walk /\ UNCHANGED walkerVars
    \/ \E node \in ArrayFunctions : VisitFunctionDeclaration(node)

\* ========================================================================
\* compileWithModules: one walker per module over the shared Emitter and
\* the shared function tables; calls in function bodies
\* ========================================================================

\* Modules after the first, interfaces, externs and functions of the whole
\* program, taken together
MaxProgram == 5

\* f(), f(1), p.f(), p.f(1) as an expression; object is <<>> when the
\* callee is an identifier
CallExpression(object, callee, arguments) ==
    [kind |-> "CallExpression", object |-> object, callee |-> callee,
     arguments |-> arguments]

CallStatements ==
    {Statement("ExpressionStatement",
               <<CallExpression(object, callee, arguments)>>, <<>>, <<>>) :
        object \in {<<>>, <<<<"p">>>>}, callee \in CalleeNames,
        arguments \in {<<>>, <<NumericLiteral>>}}

\* function puts(): number {}   function area(): number {}
\* function area(this: A): number {}
\* function run(p: A): void { f(...); }   or   { p.f(...); }
CallFunctions ==
    {FunctionDeclaration([name |-> name, type |-> <<"number">>,
                          parameters |-> <<>>], <<>>) : name \in CalleeNames}
    \cup
    {FunctionDeclaration([name |-> <<"area">>, type |-> <<"number">>,
                          parameters |-> <<Parameter("this", <<"A">>)>>],
                         <<>>)}
    \cup
    {FunctionDeclaration([name |-> <<"run">>, type |-> <<"void">>,
                          parameters |-> <<Parameter("p", <<"A">>)>>],
                         <<call>>) :
        call \in CallStatements}

\* declare function puts(s: string): number, with and without rest arguments
CallDeclares ==
    {node \in DeclareFunctions :
        /\ node.name = <<"puts">> /\ node.type = <<"number">>
        /\ Len(node.parameters) >= 1
        /\ node.parameters[1].type = <<"string">>}

RECURSIVE ModuleNodes(_)
ModuleNodes(mods) ==
    IF mods = <<>> THEN 0
    ELSE 1 + Len(Head(mods).source) + Len(Head(mods).functions)
         + ModuleNodes(Tail(mods))

ProgramNodes ==
    ModuleNodes(walkedModules) + Len(source) + Len(functions)
    + Len(declarations)

WalkedNames == {walkedModules[i].name : i \in 1..Len(walkedModules)}

\* the function definitions of a module walked so far
FunctionsOf(name) ==
    IF name = currentModule THEN functions
    ELSE walkedModules[CHOOSE i \in 1..Len(walkedModules) :
                          walkedModules[i].name = name].functions

\* imports of functions the named module defines
ValidImports ==
    {imp \in ImportInfos(WalkedNames \cup {currentModule}) :
        \E i \in 1..Len(FunctionsOf(imp.fromModule)) :
           FunctionsOf(imp.fromModule)[i].name = imp.exportedName}

\* the next iteration of the loop of compileWithModules: a new ASTWalker
\* for the module, the shared registries, registerImports
NewWalker(name, imports) ==
    /\ sPhase = "walked"
    /\ walkError = "none"
    /\ name \notin WalkedNames \cup {currentModule}
    /\ Len(walkedModules) < MaxModules
    /\ walkedModules' = Append(walkedModules,
                               [name |-> currentModule,
                                importMap |-> importMap,
                                source |-> source, functions |-> functions])
    /\ currentModule' = name
    /\ importMap' = registerImports(EmptyMap, imports)
    /\ context' = NewContext
    /\ methodRegistry' = EmptyMap
    /\ structs' = <<>>
    /\ source' = <<>>
    /\ sPhase' = "source"
    /\ functions' = <<>>
    /\ UNCHANGED <<buffer, indentLevel, internalFunctions, structTypes,
                   walkError, sizeofArg, sizeofResult, declarations,
                   externFunctions>>

\* the calling function of the program has been lowered
CallerLowered == \E i \in 1..Len(functions) : functions[i].name = <<"run">>

\* a program of interfaces, externs and functions in up to three modules,
\* whose last function is the one that calls; a module defines no function
\* under a name it imports
CallNext ==
    \/ /\ ProgramNodes < MaxProgram
       /\ WriteInterface(<<"A">>)
       /\ UNCHANGED <<walkerVars, externVars, compileVars>>
    \/ Walk /\ UNCHANGED <<walkerVars, externVars, compileVars>>
    \/ \E node \in CallDeclares :
          /\ ProgramNodes < MaxProgram
          /\ sPhase = "walked" /\ walkError = "none" /\ functions = <<>>
          /\ VisitDeclareFunction(node)
          /\ UNCHANGED <<structVars, walkerVars, compileVars>>
    \/ \E node \in CallFunctions :
          /\ ProgramNodes < MaxProgram
          /\ ~CallerLowered
          /\ node.name \notin DOMAIN importMap
          /\ VisitFunctionDeclaration(node)
          /\ UNCHANGED <<externVars, compileVars>>
    \/ \E name \in LaterModules :
          \E imports \in {<<>>} \cup {<<imp>> : imp \in ValidImports} :
             /\ ProgramNodes < MaxProgram
             /\ ~CallerLowered
             /\ NewWalker(name, imports)

\* ========================================================================
\* Variable declarations with an initializer
\* ========================================================================

Identifier(name) == [kind |-> "Identifier", text |-> <<name>>]

\* declare function malloc(size: number): string
DeclareMalloc ==
    [name |-> <<"malloc">>, type |-> <<"string">>,
     parameters |-> <<[type |-> <<"number">>, dotDotDotToken |-> FALSE]>>]

\* 1   p   z   malloc(1)
Initializers ==
    {NumericLiteral, Identifier("p"), Identifier("z"),
     CallExpression(<<>>, <<"malloc">>, <<NumericLiteral>>)}

\* function run(p: T): void { let q: U = init; }   (U may be left out)
InitializerFunctions ==
    {FunctionDeclaration(
        [name |-> <<"run">>, type |-> <<"void">>,
         parameters |-> <<Parameter("p", t)>>],
        <<Statement("VariableStatement", <<>>,
                    <<[name |-> <<"q">>, type |-> u,
                       initializer |-> <<init>>]>>, <<>>)>>) :
        t \in {<<"A">>, <<"number">>, <<"string">>},
        u \in {<<>>, <<"A">>, <<"number">>, <<"string">>},
        init \in Initializers}

InitializerNext ==
    \/ WriteInterface(<<"A">>) /\ UNCHANGED <<walkerVars, externVars>>
    \/ Walk /\ UNCHANGED <<walkerVars, externVars>>
    \/ /\ sPhase = "walked" /\ walkError = "none" /\ functions = <<>>
       /\ VisitDeclareFunction(DeclareMalloc)
       /\ UNCHANGED <<structVars, walkerVars>>
    \/ \E node \in InitializerFunctions :
          /\ VisitFunctionDeclaration(node)
          /\ UNCHANGED externVars

\* ========================================================================
\* for statements with and without initializer, condition and incrementer
\* ========================================================================

\* let j = 1   (as the initializer of a for statement)
VariableDeclarationList ==
    [kind |-> "VariableDeclarationList",
     declarations |-> <<[name |-> <<"j">>, type |-> <<>>,
                         initializer |-> <<NumericLiteral>>]>>]

\* for (init; cond; inc) body
ForStatement(init, cond, inc, body) ==
    [Statement("ForStatement", cond, <<>>, <<body>>) EXCEPT
        !.initializer = init, !.incrementor = inc]

\* 1;   let x = 1;   return;   {}
ForBodies ==
    {Statement("ExpressionStatement", <<NumericLiteral>>, <<>>, <<>>),
     Statement("VariableStatement", <<>>,
               <<[name |-> <<"x">>, type |-> <<>>,
                  initializer |-> <<NumericLiteral>>]>>, <<>>),
     Statement("ReturnStatement", <<>>, <<>>, <<>>),
     Statement("Block", <<>>, <<>>, <<>>)}

\* function run(i: number): T { for (init; cond; inc) body }
ForFunctions ==
    {FunctionDeclaration(
        [name |-> <<"run">>, type |-> type,
         parameters |-> <<Parameter("i", <<"number">>)>>],
        <<ForStatement(init, cond, inc, body)>>) :
        type \in {<<"void">>, <<"number">>},
        init \in {<<>>, <<VariableDeclarationList>>, <<NumericLiteral>>},
        cond \in {<<>>, <<NumericLiteral>>, <<Identifier("i")>>},
        inc \in {<<>>, <<NumericLiteral>>, <<Identifier("i")>>},
        body \in ForBodies}

ForNext ==
    \/ Walk /\ UNCHANGED walkerVars
    \/ \E node \in ForFunctions : VisitFunctionDeclaration(node)

\* ========================================================================
\* Emitter: getOutput.  The output is kept as the sequence of its lines.
\* ========================================================================

\* Struct types and lines of function text the Emitter holds, together
MaxEmitted == 2

VARIABLES
    output      \* what the last getOutput() returned; <<>> before any call

outputVars == <<output>>

\* str.charCodeAt(i); "U+000A" and "U+20AC" stand for the line feed and
\* for the euro sign
charCodeAt(char) ==
    CASE char = "a" -> 97
      [] char = "n" -> 110
      [] char = "\\" -> 92
      [] char = "\"" -> 34
      [] char = "U+000A" -> 10
      [] char = "U+20AC" -> 8364

\* code.toString(16).toUpperCase(), one character per digit
RECURSIVE toUpperHex(_)
toUpperHex(code) ==
    IF code < 16
    THEN << <<"0", "1", "2", "3", "4", "5", "6", "7", "8", "9", "A", "B",
              "C", "D", "E", "F">>[code + 1] >>
    ELSE toUpperHex(code \div 16) \o toUpperHex(code % 16)

\* str.padStart(2, "0")
padStart2(str) == IF Len(str) < 2 THEN <<"0">> \o str ELSE str

\* the loop of escapeString from index i (0-based), one character of the
\* result per element
RECURSIVE escapeFrom(_, _)
escapeFrom(str, i) ==
    IF i >= Len(str) THEN <<>>
    ELSE IF str[i + 1] = "\\"
    THEN IF i + 1 < Len(str) /\ str[i + 2] = "n"
         THEN <<"\\", "0", "A">> \o escapeFrom(str, i + 2)
         ELSE IF i + 1 < Len(str) /\ str[i + 2] = "t"
         THEN <<"\\", "0", "9">> \o escapeFrom(str, i + 2)
         ELSE IF i + 1 < Len(str) /\ str[i + 2] = "r"
         THEN <<"\\", "0", "D">> \o escapeFrom(str, i + 2)
         ELSE IF i + 1 < Len(str) /\ str[i + 2] = "\\"
         THEN <<"\\", "5", "C">> \o escapeFrom(str, i + 2)
         ELSE IF i + 1 < Len(str) /\ str[i + 2] = "\""
         THEN <<"\\", "2", "2">> \o escapeFrom(str, i + 2)
         ELSE <<"\\", "5", "C">> \o escapeFrom(str, i + 1)
    ELSE IF str[i + 1] = "\""
    THEN <<"\\", "2", "2">> \o escapeFrom(str, i + 1)
    ELSE IF charCodeAt(str[i + 1]) < 32 \/ charCodeAt(str[i + 1]) > 126
    THEN <<"\\">> \o padStart2(toUpperHex(charCodeAt(str[i + 1])))
         \o escapeFrom(str, i + 1)
    ELSE <<str[i + 1]>> \o escapeFrom(str, i + 1)

escapeString(str) == escapeFrom(str, 0)

\* `${name} = private unnamed_addr constant [${len} x i8] c"${escaped}\00"`
stringConstantLine(const) ==
    const.name \o <<"=", "private", "unnamed_addr", "constant", "[">>
    \o toString(calculateByteLength(const.value)) \o <<"x", "i8", "]", "c\"">>
    \o escapeString(const.value) \o <<"\\", "0", "0", "\"", "\n">>

\* buffer.findIndex(line => line === "\n"), 0-based, -1 when there is none
findHeaderEnd(buf) ==
    IF \E i \in 1..Len(buf) : buf[i] = <<"\n">>
    THEN (CHOOSE i \in 1..Len(buf) :
             /\ buf[i] = <<"\n">>
             /\ \A j \in 1..(i - 1) : buf[j] # <<"\n">>) - 1
    ELSE -1

\* the lines of a section, and the blank line after a section that has any
section(lines) ==
    [i \in 1..Len(lines) |-> lines[i] \o <<"\n">>]
    \o (IF Len(lines) > 0 THEN << <<"\n">> >> ELSE <<>>)

stringSection(consts) ==
    [i \in 1..Len(consts) |-> stringConstantLine(consts[i])]
    \o (IF Len(consts) > 0 THEN << <<"\n">> >> ELSE <<>>)

\* getOutput with the declarations ahead of the struct types
getOutputDeclarationsFirst(buf, types, decls, consts) ==
    SubSeq(buf, 1, findHeaderEnd(buf) + 1)
    \o section(decls) \o section(types) \o stringSection(consts)
    \o SubSeq(buf, findHeaderEnd(buf) + 2, Len(buf))

getOutput(buf, types, decls, consts) ==
    SubSeq(buf, 1, findHeaderEnd(buf) + 1)
    \o section(types) \o section(decls) \o stringSection(consts)
    \o SubSeq(buf, findHeaderEnd(buf) + 2, Len(buf))

OutputInit == output = <<>>

\* the calls made on the Emitter: struct types, lines of function text
OutputStructs ==
    {[name |-> <<"A">>, fieldTypes |-> <<>>],
     [name |-> <<"B">>, fieldTypes |-> << <<"i32">> >>]}

OutputLines ==
    {<<"define", "i32", "@", "main", "(", ")", "{">>, <<"}">>, <<>>}

\* the literals "a", "\\n" (backslash, n), a line feed, a euro sign
OutputStrings == {<<"a">>, <<"\\", "n">>, <<"U+000A">>, <<"U+20AC">>}

\* Emitter.addStructType(name, fieldTypes)
AddStructType(name, fieldTypes) ==
    /\ Len(structTypes) + Len(buffer) - 3 < MaxEmitted
    /\ structTypes' = addStructType(structTypes, name, fieldTypes)
    /\ UNCHANGED <<source, sPhase, structs, walkError, sizeofArg,
                   sizeofResult>>

\* Emitter.emitLine(text)
EmitLine(text) ==
    /\ Len(structTypes) + Len(buffer) - 3 < MaxEmitted
    /\ buffer' = emitLine([buffer |-> buffer, indentLevel |-> indentLevel,
                           error |-> "none"], text).buffer
    /\ UNCHANGED <<functions, indentLevel, context, internalFunctions,
                   methodRegistry>>

\* Emitter.getOutput()
GetOutput ==
    output' = getOutput(buffer, structTypes, declarations, stringConstants)

OutputStep ==
    \/ \E struct \in OutputStructs :
          /\ AddStructType(struct.name, struct.fieldTypes)
          /\ UNCHANGED <<externVars, stringVars, walkerVars, outputVars>>
    \/ \E params \in {<<"i8", "*">>, <<"i32">>} :
          /\ AddExternFunction(<<"puts">>, <<"i32">>, params, FALSE)
          /\ UNCHANGED <<structVars, stringVars, walkerVars, outputVars>>
    \/ \E value \in OutputStrings :
          /\ AddStringConstant(value)
          /\ UNCHANGED <<structVars, externVars, walkerVars, outputVars>>
    \/ \E text \in OutputLines :
          /\ EmitLine(text)
          /\ UNCHANGED <<structVars, externVars, stringVars, outputVars>>
    \/ /\ GetOutput
       /\ UNCHANGED <<structVars, externVars, stringVars, walkerVars>>

\* compile() and compileWithModules() call getOutput() once, after the walk
OutputNext ==
    /\ output = <<>>
    /\ OutputStep

\* ========================================================================
\* Specifications
\* ========================================================================

vars == <<resolverVars, structVars, externVars, stringVars, mangleVars,
          walkerVars, compileVars, registryVars, outputVars, contextVars,
          counterVars>>

Init ==
    ResolverInit /\ StructInit /\ ExternInit /\ StringsInit /\ MangleInit
    /\ CompileInit /\ FunctionsInit /\ RegistryInit /\ OutputInit
    /\ ContextInit /\ CountersInit

SpecResolver ==
    Init /\ [][ResolverNext
                /\ UNCHANGED <<structVars, externVars, stringVars, mangleVars,
                             walkerVars, compileVars, registryVars, outputVars,
                             contextVars, counterVars>>]_vars

SpecStruct ==
    Init /\ [][StructNext
                /\ UNCHANGED <<resolverVars, externVars, stringVars, mangleVars,
                             walkerVars, compileVars, registryVars, outputVars,
                             contextVars, counterVars>>]_vars

SpecExtern ==
    Init /\ [][ExternNext
                /\ UNCHANGED <<resolverVars, structVars, stringVars, mangleVars,
                             walkerVars, compileVars, registryVars, outputVars,
                             contextVars, counterVars>>]_vars

SpecStrings ==
    Init /\ [][StringsNext
                /\ UNCHANGED <<resolverVars, structVars, externVars, mangleVars,
                             walkerVars, compileVars, registryVars, outputVars,
                             contextVars, counterVars>>]_vars

SpecMangle ==
    Init /\ [][MangleNext
                /\ UNCHANGED <<resolverVars, structVars, externVars, stringVars,
                             walkerVars, compileVars, registryVars, outputVars,
                             contextVars, counterVars>>]_vars

SpecWalker ==
    Init /\ [][WalkerNext
                /\ UNCHANGED <<resolverVars, externVars, stringVars, mangleVars,
                             compileVars, registryVars, outputVars,
                             contextVars, counterVars>>]_vars

SpecRegistry ==
    Init /\ [][RegistryNext
                /\ UNCHANGED <<resolverVars, structVars, externVars, stringVars,
                             mangleVars, walkerVars, compileVars, outputVars,
                             contextVars, counterVars>>]_vars

SpecGeneric ==
    Init /\ [][GenericNext
                /\ UNCHANGED <<resolverVars, externVars, stringVars, mangleVars,
                             walkerVars, compileVars, registryVars, outputVars,
                             contextVars, counterVars>>]_vars

SpecCall ==
    Init /\ [][CallNext
                /\ UNCHANGED <<resolverVars, stringVars, mangleVars,
                             registryVars, outputVars, contextVars, counterVars>>]_vars

SpecOutput ==
    Init /\ [][OutputNext
                /\ UNCHANGED <<resolverVars, mangleVars, compileVars,
                             registryVars, contextVars, counterVars>>]_vars

SpecArray ==
    Init /\ [][ArrayNext
                /\ UNCHANGED <<resolverVars, externVars, stringVars, mangleVars,
                             compileVars, registryVars, outputVars,
                             contextVars, counterVars>>]_vars

SpecContext ==
    Init /\ [][ContextNext
                /\ UNCHANGED <<resolverVars, structVars, externVars, stringVars,
                             mangleVars, compileVars, registryVars, outputVars,
                             counterVars>>]_vars

SpecCounters ==
    Init /\ [][CountersNext
                /\ UNCHANGED <<resolverVars, structVars, externVars, stringVars,
                             mangleVars, compileVars, registryVars, outputVars,
                             contextVars>>]_vars

SpecInitializer ==
    Init /\ [][InitializerNext
                /\ UNCHANGED <<resolverVars, stringVars, mangleVars, compileVars,
                             registryVars, outputVars, contextVars, counterVars>>]_vars

SpecFor ==
    Init /\ [][ForNext
                /\ UNCHANGED <<resolverVars, externVars, stringVars, mangleVars,
                             compileVars, registryVars, outputVars,
                             contextVars, counterVars>>]_vars

\* ------------------------------------------------------------------------
\* C1: in every list resolve() returns, each module is preceded by every
\* module named in its dependencies.
\* ------------------------------------------------------------------------
DependenciesFirst ==
    (rPhase = "done" /\ resolveError = "none") =>
        \A i \in 1..Len(order) :
            \A d \in Range(order[i].dependencies) :
                \E j \in 1..(i - 1) : order[j].name = d

\* a returned list of three modules whose last module has two dependencies
DependenciesFirstWitness ==
    /\ rPhase = "done"
    /\ resolveError = "none"
    /\ Len(order) = 3
    /\ Len(order[3].dependencies) = 2

\* ------------------------------------------------------------------------
\* C2: a cycle in the import graph reachable from the entry makes resolve()
\* fail with a circular-dependency error naming a module on the cycle, and
\* no order is returned.
\* ------------------------------------------------------------------------

\* files a file imports by relative specifier with named bindings
ImportedBy(p) ==
    {d.target : d \in {x \in Range(files[p]) : x.relative /\ x.clause = "named"}}

RECURSIVE ReachableFrom(_, _)
ReachableFrom(seen, frontier) ==
    IF frontier \subseteq seen THEN seen
    ELSE LET new == frontier \ seen
         IN ReachableFrom(seen \cup new,
                          UNION {ImportedBy(p) : p \in new \cap FilePaths})

ReachableFiles == ReachableFrom({}, {entryPath})

OnCycle(p) == p \in FilePaths /\ p \in ReachableFrom({}, ImportedBy(p))

CycleReachable == \E p \in ReachableFiles : OnCycle(p)

CycleRejected ==
    (rPhase = "done" /\ ReachableFiles \subseteq FilePaths /\ CycleReachable) =>
        /\ resolveError = "circular"
        /\ \E p \in ReachableFiles : OnCycle(p) /\ getModuleName(p) = errorModule
        /\ order = <<>>

\* ------------------------------------------------------------------------
\* C3: whatever the declaration order, a record's struct type is emitted
\* after the struct types of all records its fields are declared with,
\* directly or transitively.
\* ------------------------------------------------------------------------

\* the interface of the file declared with this name
DeclaredNames == {source[i].name : i \in 1..Len(source)}

\* records named by the declared field types of interface name
DeclaredRefs(name) ==
    {t \in DeclaredNames :
        \E i \in 1..Len(source) :
            /\ source[i].name = name
            /\ \E k \in 1..Len(source[i].members) : source[i].members[k].type = t}

RECURSIVE RefsClosure(_, _)
RefsClosure(seen, frontier) ==
    IF frontier \subseteq seen THEN seen
    ELSE RefsClosure(seen \cup frontier,
                     UNION {DeclaredRefs(n) : n \in frontier \ seen})

TransitiveRefs(name) == RefsClosure({}, DeclaredRefs(name))

\* the record name in "%Name = type { ... }"
EmittedName(line) ==
    SubSeq(line, 2, (CHOOSE i \in 1..Len(line) : line[i] = "=") - 1)

StructDependenciesFirst ==
    (sPhase = "walked" /\ walkError = "none"
        /\ \A n \in DeclaredNames : n \notin TransitiveRefs(n)) =>
        \A i \in 1..Len(structTypes) :
            \A d \in TransitiveRefs(EmittedName(structTypes[i])) :
                \E j \in 1..(i - 1) : EmittedName(structTypes[j]) = d

\* ------------------------------------------------------------------------
\* C7: for a registered record R, sizeof<R>() lowers to the integer literal
\* that is the sum of the sizes of R's field IR types: 1 for i1 and i8,
\* 2 for i16, 4 for i32 and float, 8 for i64, double and every pointer;
\* 0 for a record without fields.
\* ------------------------------------------------------------------------

SizeTable(irType) ==
    IF irType \in {<<"i1">>, <<"i8">>} THEN 1
    ELSE IF irType = <<"i16">> THEN 2
    ELSE IF irType \in {<<"i32">>, <<"float">>} THEN 4
    ELSE 8

RECURSIVE FieldSizeSum(_)
FieldSizeSum(fields) ==
    IF fields = <<>> THEN 0
    ELSE SizeTable(Head(fields).type) + FieldSizeSum(Tail(fields))

DigitValue(d) == CHOOSE v \in 0..9 :
    <<"0", "1", "2", "3", "4", "5", "6", "7", "8", "9">>[v + 1] = d

RECURSIVE LiteralValue(_)
LiteralValue(digits) ==
    IF digits = <<>> THEN 0
    ELSE 10 * LiteralValue(SubSeq(digits, 1, Len(digits) - 1))
         + DigitValue(digits[Len(digits)])

SizeofIsFieldSum ==
    (sizeofArg # <<>> /\ structsHas(structs, sizeofArg)) =>
        /\ sizeofResult # <<"error">>
        /\ Len(sizeofResult) >= 1
        /\ LiteralValue(sizeofResult) =
               FieldSizeSum(structsGet(structs, sizeofArg).fields)

\* sizeof of a record with an i1, an i32 and a pointer field: 1 + 4 + 8
SizeofIsFieldSumWitness ==
    /\ sizeofArg # <<>>
    /\ structsHas(structs, sizeofArg)
    /\ {structsGet(structs, sizeofArg).fields[k].type :
           k \in 1..Len(structsGet(structs, sizeofArg).fields)}
       = {<<"i1">>, <<"i32">>, <<"i8", "*">>}
    /\ sizeofResult = <<"1", "3">>

\* ------------------------------------------------------------------------
\* C5: the extern declaration list holds at most one declaration per
\* function name, whatever signatures the calls gave for that name.
\* ------------------------------------------------------------------------

\* the function name in "declare <ret> @name(...)"
DeclaredFunction(decl) ==
    LET at == CHOOSE i \in 1..Len(decl) : decl[i] = "@"
        paren == CHOOSE i \in 1..Len(decl) : decl[i] = "("
    IN SubSeq(decl, at + 1, paren - 1)

OneDeclarationPerName ==
    \A i, j \in 1..Len(declarations) :
        DeclaredFunction(declarations[i]) = DeclaredFunction(declarations[j])
            => i = j

\* ------------------------------------------------------------------------
\* C6: the string table holds exactly one global per distinct literal; a
\* call with an interned literal returns the name and byte length its
\* first call returned and leaves the @.str.N counter alone.
\* ------------------------------------------------------------------------

StringsInternedOnce ==
    /\ \A i, j \in 1..Len(stringConstants) :
          (stringConstants[i].value = stringConstants[j].value
              \/ stringConstants[i].name = stringConstants[j].name) => i = j
    /\ {stringConstants[i].value : i \in 1..Len(stringConstants)}
           = DOMAIN firstResult
    /\ stringCounter = Cardinality(DOMAIN firstResult)
    /\ \A v \in DOMAIN firstResult :
          stringsGet(stringConstants, v) = firstResult[v].name
    /\ strArg # <<"none">> => strResult = firstResult[strArg]

\* two literals interned, the first one passed again: its first name is
\* returned and the counter stays at two
StringsInternedOnceWitness ==
    /\ Len(stringConstants) = 2
    /\ stringCounter = 2
    /\ strArg = stringConstants[1].value
    /\ strResult.name = <<"@.str.", "0">>
    /\ strResult.length = 2

\* ------------------------------------------------------------------------
\* C8: the mangled name of Name<A1,...,An> is Name followed, for each
\* argument in order, by "_" and the argument's mangled name; a leaf
\* mangles to its mapped name; the name is a function of the reference.
\* ------------------------------------------------------------------------

RECURSIVE Flatten(_)
Flatten(strs) == IF strs = <<>> THEN <<>> ELSE Head(strs) \o Flatten(Tail(strs))

RECURSIVE MangledReference(_, _)
MangledReference(node, mapper) ==
    IF node.typeArguments = <<>>
    THEN IF mapper = "mapType" THEN mapType(node.typeName) ELSE node.typeName
    ELSE node.typeName
         \o Flatten([i \in 1..Len(node.typeArguments) |->
                        <<"_">> \o MangledReference(node.typeArguments[i], mapper)])

Leaf(kind, name) == [kind |-> kind, typeName |-> <<name>>, typeArguments |-> <<>>]

Generic(name, args) ==
    [kind |-> "reference", typeName |-> <<name>>, typeArguments |-> args]

BoxOfNumber == Generic("Box", <<Leaf("keyword", "number")>>)

PairOfI32F64 ==
    Generic("Pair", <<Leaf("reference", "i32"), Leaf("reference", "f64")>>)

RECURSIVE MappedTree(_, _)
MappedTree(node, mapper) ==
    IF node.typeArguments = <<>>
    THEN [name |-> callTypeMapper(mapper, node.typeName), args |-> <<>>]
    ELSE [name |-> node.typeName,
          args |-> [i \in 1..Len(node.typeArguments) |->
                       MappedTree(node.typeArguments[i], mapper)]]

MangledNameUnique ==
    (mPhase = "mangled" /\ parsed.isGeneric) =>
        \A other \in TypeNodes :
            (/\ other.typeArguments # <<>>
             /\ MappedTree(other, typeMapper) # MappedTree(typeNode, typeMapper))
            => getMangledName(parseTypeNode(other), typeMapper) # mangled

\* ------------------------------------------------------------------------
\* C4: in every lowered function the line before the closing brace is a
\* terminator: a ret or an unconditional br.
\* ------------------------------------------------------------------------

\* a buffer entry without its indentation and newline
RECURSIVE TrimLine(_)
TrimLine(line) ==
    IF line # <<>> /\ Head(line) = "    " THEN TrimLine(Tail(line))
    ELSE IF line # <<>> /\ line[Len(line)] = "\n"
    THEN SubSeq(line, 1, Len(line) - 1)
    ELSE line

IsTerminator(text) ==
    \/ Len(text) >= 1 /\ text[1] = "ret"
    \/ Len(text) >= 2 /\ text[1] = "br" /\ text[2] = "label"

FunctionsEndInTerminator ==
    \A i \in 1..Len(buffer) :
        TrimLine(buffer[i]) = <<"}">> =>
            i > 1 /\ IsTerminator(TrimLine(buffer[i - 1]))

\* ------------------------------------------------------------------------
\* C10: a function named main is emitted as main; a function whose first
\* parameter is this, typed as a registered record R, as R_funcName; every
\* other function as ModuleName_funcName.
\* ------------------------------------------------------------------------

NameByCase(node) ==
    IF node.name = <<"main">> THEN <<"main">>
    ELSE IF /\ Len(node.parameters) > 0
            /\ node.parameters[1].name = <<"this">>
            /\ structsHas(structs, node.parameters[1].type)
    THEN node.parameters[1].type \o <<"_">> \o node.name
    ELSE currentModule \o <<"_">> \o node.name

IsDefine(line) == Len(line) > 0 /\ line[1] = "define"

\* the name in "define <ret> @name(...) {"
DefinedName(line) ==
    LET at == CHOOSE i \in 1..Len(line) : line[i] = "@"
        paren == CHOOSE i \in 1..Len(line) : line[i] = "("
    IN SubSeq(line, at + 1, paren - 1)

FunctionNameByCase ==
    LET defines == SelectSeq(buffer, IsDefine)
    IN /\ Len(defines) = Len(functions)
       /\ \A i \in 1..Len(functions) :
             /\ DefinedName(defines[i]) = NameByCase(functions[i])
             /\ internalFunctions[functions[i].name].mangledName
                    = NameByCase(functions[i])

\* ------------------------------------------------------------------------
\* C11: a call to the identifier f is resolved through the import map, then
\* the function table, then the extern table: an imported f is called by
\* the name it was imported as, otherwise a function named f by its mangled
\* name, otherwise an extern f by its bare name; a name in none of the
\* three ends the compilation with an unknown-function error.
\* ------------------------------------------------------------------------

\* the call made by the calling function
LoweredCall == functions[Len(functions)].body[1].expression[1]

\* the lines of the function lowered last
LastDefine ==
    CHOOSE i \in 1..Len(buffer) :
        /\ IsDefine(buffer[i])
        /\ \A j \in (i + 1)..Len(buffer) : ~IsDefine(buffer[j])

EmittedCalls == {i \in LastDefine..Len(buffer) : includes(buffer[i], "call")}

RECURSIVE NameFrom(_, _)
NameFrom(line, i) ==
    IF i > Len(line) \/ line[i] = "(" THEN <<>>
    ELSE <<line[i]>> \o NameFrom(line, i + 1)

\* the name in "call <ret> @name(...)"
CalledName(line) ==
    NameFrom(line, 1 + CHOOSE i \in 1..Len(line) : line[i] = "@")

CallsOnly(name) ==
    /\ walkError = "none"
    /\ Cardinality(EmittedCalls) = 1
    /\ \A i \in EmittedCalls : CalledName(buffer[i]) = name

CalleeResolvedInOrder ==
    (CallerLowered /\ LoweredCall.object = <<>>) =>
        IF LoweredCall.callee \in DOMAIN importMap
        THEN CallsOnly(importMap[LoweredCall.callee])
        ELSE IF LoweredCall.callee \in DOMAIN internalFunctions
        THEN CallsOnly(internalFunctions[LoweredCall.callee].mangledName)
        ELSE IF LoweredCall.callee \in DOMAIN externFunctions
        THEN CallsOnly(LoweredCall.callee)
        ELSE walkError = "Unknown function" /\ EmittedCalls = {}

\* ------------------------------------------------------------------------
\* C12: a call p.m(a1..an) on a variable p whose slot holds a pointer to the
\* record A is lowered, when m is in the method table of A, to exactly one
\* call of A_m with n+1 arguments, the first being the pointer loaded from
\* the slot of p, typed %A*; when m is not in the method table of A the
\* compilation ends with an unknown-method error and no call is emitted.
\* ------------------------------------------------------------------------

\* the text between the parentheses of "call <ret> @name(...)"
RECURSIVE ArgumentsFrom(_, _)
ArgumentsFrom(line, i) ==
    IF i > Len(line) \/ line[i] = ")" THEN <<>>
    ELSE <<line[i]>> \o ArgumentsFrom(line, i + 1)

CallArguments(line) ==
    ArgumentsFrom(line, 2 + Len(CalledName(line))
                        + CHOOSE i \in 1..Len(line) : line[i] = "@")

ArgumentCount(args) ==
    IF args = <<>> THEN 0
    ELSE 1 + Cardinality({i \in 1..Len(args) : args[i] = ","})

\* the register the function loads from the slot of p as a %A*
LoadedReceivers ==
    {reg \in {<<"%", "t", "0">>, <<"%", "t", "1">>} :
        \E i \in LastDefine..Len(buffer) :
           TrimLine(buffer[i]) = reg \o <<"=", "load", "%", "A", "*", ",",
                                          "%", "A", "*", "*", "%", "p">>}

ReceiverFirst(args) ==
    \E reg \in LoadedReceivers :
        /\ Len(args) >= 6
        /\ SubSeq(args, 1, 6) = <<"%", "A", "*">> \o reg
        /\ Len(args) = 6 \/ args[7] = ","

MethodCallLowered ==
    CallerLowered /\ LoweredCall.object # <<>> /\ structsHas(structs, <<"A">>)

InMethodTable ==
    /\ <<"A">> \in DOMAIN methodRegistry
    /\ LoweredCall.callee \in DOMAIN methodRegistry[<<"A">>]

MethodCallIsDirectCall ==
    MethodCallLowered =>
        IF InMethodTable
        THEN /\ CallsOnly(<<"A", "_">> \o LoweredCall.callee)
             /\ \A i \in EmittedCalls :
                   /\ ArgumentCount(CallArguments(buffer[i]))
                          = Len(LoweredCall.arguments) + 1
                   /\ ReceiverFirst(CallArguments(buffer[i]))
        ELSE walkError = "Unknown method" /\ EmittedCalls = {}

MethodCallIsDirectCallWitness ==
    /\ MethodCallLowered
    /\ InMethodTable
    /\ Len(LoweredCall.arguments) = 1
    /\ walkError = "none"

\* ------------------------------------------------------------------------
\* C13: a file that declares the generic interface Box<T> and uses it as
\* Box<number> and as Box<Box<number>> yields exactly two struct types of
\* Box, %Box_i32 and %Box_Box_i32, the second with a field of type
\* %Box_i32*, and no struct type for the template Box itself.
\* ------------------------------------------------------------------------

DeclaresTemplate ==
    \E i \in 1..Len(source) : "typeParameters" \in DOMAIN source[i]

UsedTypes ==
    UNION {{source[i].members[k].type : k \in 1..Len(source[i].members)} :
              i \in 1..Len(source)}

\* the struct types whose name starts with Box
BoxTypes ==
    {i \in 1..Len(structTypes) : Head(EmittedName(structTypes[i])) = "Box"}

\* "%Box_i32*" stands among the fields of the definition
HasBoxPointerField(def) ==
    \E k \in 1..(Len(def) - 5) :
        /\ def[k] \in {"{", ","}
        /\ SubSeq(def, k + 1, k + 5) = <<"%", "Box", "_", "i32", "*">>

GenericsMonomorphized ==
    (sPhase = "walked" /\ walkError = "none" /\ DeclaresTemplate
     /\ GenericUses \subseteq UsedTypes) =>
        /\ Cardinality(BoxTypes) = 2
        /\ \E i \in BoxTypes :
              EmittedName(structTypes[i]) = <<"Box", "_", "i32">>
        /\ \E i \in BoxTypes :
              /\ EmittedName(structTypes[i]) = <<"Box", "_", "Box", "_", "i32">>
              /\ HasBoxPointerField(structTypes[i])

\* ------------------------------------------------------------------------
\* C14: the struct registry is shared by the modules of one compilation: a
\* record registered while an earlier module was walked is found by the
\* lookups of every module walked after it, so a parameter declared with
\* that record type is typed as a pointer to it.
\* ------------------------------------------------------------------------

\* the records the modules walked before this one declared
EarlierRecords ==
    UNION {{walkedModules[i].source[k].name :
               k \in 1..Len(walkedModules[i].source)} :
           i \in 1..Len(walkedModules)}

\* "%A* %p.param" stands among the parameters of the define line
TypesParameterAsRecord(line) ==
    \E k \in 1..(Len(line) - 5) :
        SubSeq(line, k, k + 5) = <<"%", "A", "*", "%", "p", ".param">>

RegistrySharedAcrossModules ==
    (sPhase = "walked" /\ walkError = "none") =>
        /\ \A name \in EarlierRecords : structsHas(structs, name)
        /\ (CallerLowered /\ <<"A">> \in EarlierRecords) =>
               TypesParameterAsRecord(buffer[LastDefine])

\* ------------------------------------------------------------------------
\* C15: register() with a name that is already registered is an error, and
\* the layout stored under that name stays as it was.
\* ------------------------------------------------------------------------
DuplicateRegisterRejected ==
    (lastCall.op = "register" /\ lastCall.previous # <<>>) =>
        /\ lastCall.error # "none"
        /\ structsGet(registry, lastCall.name) = lastCall.previous[1]

\* ------------------------------------------------------------------------
\* C16: when the registered records refer to each other in a cycle through
\* the IR types of their fields (a record referring to itself included),
\* getTopologicalOrder() fails with a circular-dependency error that names
\* a record on a cycle; when there is no cycle it returns every registered
\* record exactly once.
\* ------------------------------------------------------------------------

RegisteredNames == {registry[i].name : i \in 1..Len(registry)}

\* the registered records the fields of the named record point to
FieldRefs(name) ==
    {n \in RegisteredNames :
        \E k \in 1..Len(structsGet(registry, name).fields) :
           structsGet(registry, name).fields[k].type = <<"%">> \o n \o <<"*">>}

RECURSIVE RefsReach(_, _)
RefsReach(seen, frontier) ==
    IF frontier \subseteq seen THEN seen
    ELSE RefsReach(seen \cup frontier,
                   UNION {FieldRefs(n) : n \in frontier})

OnFieldCycle(name) == name \in RefsReach({}, FieldRefs(name))

CycleDetectedOrAllOnce ==
    lastCall.op = "getTopologicalOrder" =>
        IF \E n \in RegisteredNames : OnFieldCycle(n)
        THEN /\ lastCall.error = "circular"
             /\ lastCall.errorName \in RegisteredNames
             /\ OnFieldCycle(lastCall.errorName)
        ELSE /\ lastCall.error = "none"
             /\ Len(lastCall.result) = Len(registry)
             /\ \A n \in RegisteredNames :
                   Cardinality({i \in 1..Len(lastCall.result) :
                                   lastCall.result[i].name = n}) = 1

\* a cycle through two records, behind a record that is on no cycle
CycleDetectedOrAllOnceWitness ==
    /\ lastCall.op = "getTopologicalOrder"
    /\ lastCall.error = "circular"
    /\ Len(registry) = 3
    /\ \E n \in RegisteredNames : ~OnFieldCycle(n)
    /\ \A n \in RegisteredNames : n \notin FieldRefs(n)

\* ------------------------------------------------------------------------
\* C17: what getOutput() returns is the header, then every struct type
\* definition, then every extern declaration, then every string-constant
\* global, then all the function text, in this order (a blank line closes
\* each of the three middle segments that is not empty), so that no struct
\* type, extern or string global comes after the first line of function
\* text.
\* ------------------------------------------------------------------------

HeaderLines == 3

\* the number of lines a segment of n definitions takes in the output
SegmentLines(n) == IF n > 0 THEN n + 1 ELSE 0

StructsStart == HeaderLines
ExternsStart == StructsStart + SegmentLines(Len(structTypes))
StringsStart == ExternsStart + SegmentLines(Len(declarations))
TextStart == StringsStart + SegmentLines(Len(stringConstants))

\* the string-constant global the output line defines
GlobalOf(line) == SubSeq(line, 1, 2)

OutputInFixedOrder ==
    output # <<>> =>
        /\ Len(output) = TextStart + Len(buffer) - HeaderLines
        /\ \A i \in 1..HeaderLines : output[i] = buffer[i]
        /\ \A i \in 1..Len(structTypes) :
              output[StructsStart + i] = structTypes[i] \o <<"\n">>
        /\ \A i \in 1..Len(declarations) :
              output[ExternsStart + i] = declarations[i] \o <<"\n">>
        /\ \A i \in 1..Len(stringConstants) :
              GlobalOf(output[StringsStart + i]) = stringConstants[i].name
        /\ \A i \in 1..(Len(buffer) - HeaderLines) :
              output[TextStart + i] = buffer[HeaderLines + i]

\* an output with all five segments
OutputInFixedOrderWitness ==
    /\ output # <<>>
    /\ structTypes # <<>>
    /\ declarations # <<>>
    /\ stringConstants # <<>>
    /\ Len(buffer) > HeaderLines

\* ------------------------------------------------------------------------
\* C18: for every string literal, the length addStringConstant returns and
\* the length L in the global's [L x i8] both equal the number of bytes the
\* emitted c"..." text denotes, one byte per plain character and per \HH
\* escape, the trailing \00 included.
\* ------------------------------------------------------------------------

HexDigits ==
    {"0", "1", "2", "3", "4", "5", "6", "7", "8", "9", "A", "B", "C", "D",
     "E", "F"}

\* the number of bytes the characters of a c"..." text denote
RECURSIVE DenotedBytes(_)
DenotedBytes(text) ==
    IF text = <<>> THEN 0
    ELSE IF Len(text) >= 3 /\ text[1] = "\\" /\ text[2] \in HexDigits
            /\ text[3] \in HexDigits
    THEN 1 + DenotedBytes(SubSeq(text, 4, Len(text)))
    ELSE 1 + DenotedBytes(Tail(text))

IndexOf(line, token) == CHOOSE i \in 1..Len(line) : line[i] = token

\* the L of [L x i8] in the line of a string-constant global
WrittenLength(line) ==
    CHOOSE n \in 0..99 :
        toString(n) = SubSeq(line, IndexOf(line, "[") + 1,
                             IndexOf(line, "x") - 1)

\* the characters between c" and the closing quote
WrittenText(line) ==
    SubSeq(line, IndexOf(line, "c\"") + 1, Len(line) - 2)

ByteLengthIsDenotedBytes ==
    /\ strArg # <<"none">> =>
          strResult.length
              = DenotedBytes(escapeString(strArg) \o <<"\\", "0", "0">>)
    /\ output # <<>> =>
          \A i \in 1..Len(stringConstants) :
             WrittenLength(output[StringsStart + i])
                 = DenotedBytes(WrittenText(output[StringsStart + i]))

\* ------------------------------------------------------------------------
\* C19: wherever the walker maps a declared type (record fields,
\* parameters, variables), an array type T[] maps to the IR type of T,
\* primitive or registered record, followed by '*'.
\* ------------------------------------------------------------------------

isArrayType(type) == type # <<>> /\ type[Len(type)] = "[]"

\* the T of T[]
elementType(type) == SubSeq(type, 1, Len(type) - 1)

\* the IR type the claim gives to the declared type T[]
PointerToElement(type) == llvmTypeOf(elementType(type)) \o <<"*">>

ArrayFieldsMapped ==
    (sPhase = "walked" /\ walkError = "none") =>
        \A i \in 1..Len(source) : \A k \in 1..Len(source[i].members) :
           isArrayType(source[i].members[k].type) =>
               structsGet(structs, source[i].name).fields[k].type
                   = PointerToElement(source[i].members[k].type)

ArrayParametersMapped ==
    \A j \in 1..Len(functions) : \A i \in 1..Len(functions[j].parameters) :
       isArrayType(functions[j].parameters[i].type) =>
           internalFunctions[functions[j].name].params[i].type
               = PointerToElement(functions[j].parameters[i].type)

\* the variables declared by the statements at the top of a function body
TopLevelVariables(node) ==
    UNION {{node.body[k].declarations[d] :
               d \in 1..Len(node.body[k].declarations)} :
           k \in 1..Len(node.body)}

\* a line of the buffer without its indentation
RECURSIVE Unindented(_)
Unindented(line) ==
    IF line # <<>> /\ Head(line) = "    " THEN Unindented(Tail(line)) ELSE line

ArrayVariablesMapped ==
    \A j \in 1..Len(functions) : \A decl \in TopLevelVariables(functions[j]) :
       isArrayType(decl.type) =>
           \E l \in 1..Len(buffer) :
              Unindented(buffer[l])
                  = <<"%">> \o decl.name \o <<"=", "alloca">>
                    \o PointerToElement(decl.type) \o <<"\n">>

ArrayMapsToElementPointer ==
    /\ ArrayFieldsMapped
    /\ ArrayParametersMapped
    /\ ArrayVariablesMapped

\* ------------------------------------------------------------------------
\* C20: lookupVariable(n) returns the binding of n declared in the
\* innermost open scope that contains n, undefined when none does; and
\* when popScope() closes a scope, every name looks up to what it did when
\* that scope was opened, the bindings the scope held hiding nothing any
\* more.
\* ------------------------------------------------------------------------

ScopesWith(scopes, name) == {i \in 1..Len(scopes) : name \in DOMAIN scopes[i]}

InnermostBinding(scopes, name) ==
    IF ScopesWith(scopes, name) = {} THEN <<>>
    ELSE <<scopes[CHOOSE i \in ScopesWith(scopes, name) :
                     \A j \in ScopesWith(scopes, name) : j <= i][name]>>

LookupInnermostAndRestored ==
    /\ contextCall.op = "lookupVariable" =>
          contextCall.result
              = InnermostBinding(context.scopes, contextCall.name)
    /\ (contextCall.op = "popScope" /\ contextCall.closed # <<>>) =>
          /\ contextCall.after = contextCall.before[1]
          /\ \A n \in VariableNames :
                contextCall.after[n] = InnermostBinding(context.scopes, n)

\* the scope just closed held an x that hid an outer x of another type,
\* and the next lookup of x is answered
LookupInnermostAndRestoredWitness ==
    /\ contextCall.op = "lookupVariable"
    /\ contextCall.name = <<"x">>
    /\ Len(context.scopes) = 2
    /\ <<"x">> \in DOMAIN context.scopes[1]
    /\ <<"x">> \in DOMAIN context.scopes[2]
    /\ context.scopes[1][<<"x">>] # context.scopes[2][<<"x">>]
    /\ Len(opened) = 1

\* a scope that hid an outer binding was closed
ShadowRemovedByPop ==
    /\ contextCall.op = "popScope"
    /\ contextCall.closed # <<>>
    /\ <<"x">> \in DOMAIN contextCall.closed[1]
    /\ contextCall.before[1][<<"x">>] # <<>>
    /\ contextCall.before[1][<<"x">>][1] # contextCall.closed[1][<<"x">>]

\* ------------------------------------------------------------------------
\* C21: between two resets of the Context, no two nextTemp calls return the
\* same register name and no two nextLabel calls return the same label,
\* whatever the prefixes; after a reset both counters count from 0 again.
\* ------------------------------------------------------------------------

NoRepeat(issued) ==
    \A i \in 1..Len(issued) : \A j \in 1..Len(issued) :
       i # j => issued[i] # issued[j]

TempsAndLabelsUnique ==
    /\ NoRepeat(issuedTemps)
    /\ NoRepeat(issuedLabels)
    /\ issuedTemps # <<>> => issuedTemps[1] = <<"%", "t", "0">>
    /\ issuedLabels # <<>> =>
          issuedLabels[1] \in {<<"L", "0">>, <<"L", "1", "0">>}
    /\ Len(issuedTemps) = context.tempCounter
    /\ Len(issuedLabels) = context.labelCounter

\* ------------------------------------------------------------------------
\* C22: lowering a variable declaration with an initializer emits a
\* bitcast from i8* to %R* (ahead of the store into the slot) exactly when
\* the declared type is a registered record R and the IR type of the
\* initializer is i8*; an initializer of another IR type, such as a value
\* loaded from a variable of type %R*, gets no bitcast from i8*.
\* ------------------------------------------------------------------------

\* the declaration in the body of the function lowered last
LoweredDeclaration == functions[Len(functions)].body[1].declarations[1]

DeclarationLowered ==
    /\ functions # <<>>
    /\ walkError = "none"
    /\ functions[Len(functions)].body # <<>>
    /\ functions[Len(functions)].body[1].kind = "VariableStatement"
    /\ LoweredDeclaration.initializer # <<>>

\* the IR type of the value the initializer lowers to
InitializerIRType ==
    LET init == LoweredDeclaration.initializer[1]
    IN CASE init.kind = "NumericLiteral" -> <<"i32">>
         [] init.kind = "Identifier" ->
               llvmTypeOf(functions[Len(functions)].parameters[1].type)
         [] init.kind = "CallExpression" ->
               externFunctions[init.callee].returnType

IsBitcastFromI8(line) ==
    \E i \in 1..(Len(line) - 2) :
       line[i] = "bitcast" /\ line[i + 1] = "i8" /\ line[i + 2] = "*"

BitcastsFromI8 ==
    {l \in LastDefine..Len(buffer) : IsBitcastFromI8(buffer[l])}

\* stores into the slot of the declared variable
SlotStores ==
    {l \in LastDefine..Len(buffer) :
        /\ includes(buffer[l], "store")
        /\ SubSeq(TrimLine(buffer[l]),
                  Len(TrimLine(buffer[l])) - Len(LoweredDeclaration.name),
                  Len(TrimLine(buffer[l])))
               = <<"%">> \o LoweredDeclaration.name}

BitcastOnlyFromI8 ==
    DeclarationLowered =>
        IF /\ isStructTypeNode(LoweredDeclaration.type)
           /\ InitializerIRType = <<"i8", "*">>
        THEN /\ Cardinality(BitcastsFromI8) = 1
             /\ \A b \in BitcastsFromI8 : \A l \in SlotStores : b < l
             /\ SlotStores # {}
        ELSE BitcastsFromI8 = {}

\* ------------------------------------------------------------------------
\* C23: in the IR of one compilation, whatever the modules walked and the
\* interfaces they declare, no struct type name is defined twice.
\* ------------------------------------------------------------------------

\* the %name a struct type line defines
DefinedTypeName(line) ==
    SubSeq(line, 1, (CHOOSE i \in 1..Len(line) : line[i] = "=") - 1)

StructTypeDefinedOnce ==
    \A i \in 1..Len(structTypes) : \A j \in 1..Len(structTypes) :
       i # j => DefinedTypeName(structTypes[i]) # DefinedTypeName(structTypes[j])

\* ------------------------------------------------------------------------
\* C24: resolve() reaches the transitive closure of the relative imports:
\* every file reachable from the entry through import declarations with a
\* relative specifier, whatever their import clause, is resolved, is named
\* in the dependencies of its importer and is in the returned list; files
\* named only by non-relative specifiers are not.
\* ------------------------------------------------------------------------

\* files a file imports by relative specifier, whatever the clause
RelativeImportsOf(p) == {d.target : d \in {x \in Range(files[p]) : x.relative}}

RECURSIVE RelativeClosure(_, _)
RelativeClosure(seen, frontier) ==
    IF frontier \subseteq seen THEN seen
    ELSE RelativeClosure(seen \cup frontier,
                         UNION {RelativeImportsOf(p) :
                                   p \in (frontier \ seen) \cap FilePaths})

ReachableByRelativeImport == RelativeClosure({}, {entryPath})

ReturnedPaths == {order[i].path : i \in 1..Len(order)}

\* the dependencies recorded for the file
RecordedDependencies(p) ==
    UNION {Range(order[i].dependencies) :
              i \in {k \in 1..Len(order) : order[k].path = p}}

RelativeImportsAllResolved ==
    (rPhase = "done" /\ resolveError = "none") =>
        /\ resolved \subseteq ReachableByRelativeImport
        /\ \A p \in ReachableByRelativeImport :
              /\ p \in resolved
              /\ p \in ReturnedPaths
              /\ \A q \in RelativeImportsOf(p) :
                    getModuleName(q) \in RecordedDependencies(p)

\* ------------------------------------------------------------------------
\* C25: a for statement is emitted as: initializer, branch to cond, cond
\* label, condition and conditional branch to body or end (an unconditional
\* branch to body when there is no condition), body label, body,
\* incrementer if any, branch back to cond, end label; the incrementer
\* comes after the body and before the back edge, and a for without
\* condition has no branch to its end label.
\* ------------------------------------------------------------------------

\* the for statement of the function lowered last
LoweredFor == functions[Len(functions)].body[1]

ForLowered ==
    /\ functions # <<>>
    /\ walkError = "none"
    /\ functions[Len(functions)].body # <<>>
    /\ LoweredFor.kind = "ForStatement"

ForCond == <<"for.cond", "0">>
ForBody == <<"for.body", "1">>
ForEnd == <<"for.end", "2">>

FunctionLines == LastDefine..Len(buffer)

LinesWith(text) == {l \in FunctionLines : TrimLine(buffer[l]) = text}

\* lines that name the variable: its alloca and the stores into its slot
LinesOfVariable(name) ==
    {l \in FunctionLines :
        /\ ~includes(buffer[l], "load")
        /\ \E k \in 1..(Len(buffer[l]) - 1) :
              buffer[l][k] = "%" /\ buffer[l][k + 1] = name}

LoadLines == {l \in FunctionLines : includes(buffer[l], "load")}

CompareLines == {l \in FunctionLines : includes(buffer[l], "icmp")}

\* branches that name the label as a target
BranchesTo(label) ==
    {l \in FunctionLines :
        /\ includes(buffer[l], "br")
        /\ \E k \in 1..(Len(buffer[l]) - 2) :
              SubSeq(buffer[l], k, k + 2) = <<"%">> \o label}

Between(lines, low, high) == {l \in lines : low < l /\ l < high}

\* the lines the body of the loop lowers to
BodyLines(bodyAt, backEdge) ==
    Between(LinesOfVariable("x") \cup LinesWith(<<"ret", "void">>),
            bodyAt, backEdge)

ExpectedBodyLines ==
    CASE LoweredFor.children[1].kind = "VariableStatement" -> 2
      [] LoweredFor.children[1].kind = "ReturnStatement" -> 1
      [] OTHER -> 0

IsLoad(expression) == expression # <<>> /\ expression[1].kind = "Identifier"

IsLiteral(expression) ==
    expression # <<>> /\ expression[1].kind = "NumericLiteral"

\* the smallest and the largest line of a set of lines (0 for no line)
FirstOf(lines) ==
    IF lines = {} THEN 0 ELSE CHOOSE l \in lines : \A k \in lines : l <= k

LastOf(lines) ==
    IF lines = {} THEN 0 ELSE CHOOSE l \in lines : \A k \in lines : k <= l

EntryBranch == FirstOf(BranchesTo(ForCond))
BackEdge == LastOf(BranchesTo(ForCond))
CondLabelAt == FirstOf(LinesWith(ForCond \o <<":">>))
BodyBranch == FirstOf(BranchesTo(ForBody))
BodyLabelAt == FirstOf(LinesWith(ForBody \o <<":">>))
EndLabelAt == FirstOf(LinesWith(ForEnd \o <<":">>))

ForEmittedInOrder ==
    ForLowered =>
        /\ BranchesTo(ForCond) = {EntryBranch, BackEdge}
        /\ LinesWith(ForCond \o <<":">>) = {CondLabelAt}
        /\ BranchesTo(ForBody) = {BodyBranch}
        /\ LinesWith(ForBody \o <<":">>) = {BodyLabelAt}
        /\ LinesWith(ForEnd \o <<":">>) = {EndLabelAt}
        /\ EntryBranch + 1 = CondLabelAt
        /\ CondLabelAt < BodyBranch
        /\ BodyBranch + 1 = BodyLabelAt
        /\ BodyLabelAt < BackEdge
        /\ BackEdge + 1 = EndLabelAt
        \* the initializer is ahead of the loop
        /\ \A l \in LinesOfVariable("j") : l < EntryBranch
        /\ Cardinality(LinesOfVariable("j"))
              = IF LoweredFor.initializer = <<VariableDeclarationList>>
                THEN 2 ELSE 0
        \* the condition is in the block cond, and decides body or end
        /\ Between(FunctionLines, CondLabelAt, BodyBranch)
              = Between(LoadLines \cup CompareLines, CondLabelAt, BodyBranch)
        /\ Cardinality(Between(LoadLines, CondLabelAt, BodyBranch))
              = IF IsLoad(LoweredFor.expression) THEN 1 ELSE 0
        /\ Cardinality(Between(CompareLines, CondLabelAt, BodyBranch))
              = IF IsLiteral(LoweredFor.expression) THEN 1 ELSE 0
        /\ BranchesTo(ForEnd)
              = IF LoweredFor.expression = <<>> THEN {} ELSE {BodyBranch}
        /\ LoweredFor.expression = <<>> =>
              TrimLine(buffer[BodyBranch]) = <<"br", "label", "%">> \o ForBody
        \* the body, then the incrementer, then the back edge
        /\ Between(FunctionLines, BodyLabelAt, BackEdge)
              = BodyLines(BodyLabelAt, BackEdge)
                \cup Between(LoadLines, BodyLabelAt, BackEdge)
        /\ Cardinality(BodyLines(BodyLabelAt, BackEdge)) = ExpectedBodyLines
        /\ Cardinality(Between(LoadLines, BodyLabelAt, BackEdge))
              = IF IsLoad(LoweredFor.incrementor) THEN 1 ELSE 0
        /\ \A b \in BodyLines(BodyLabelAt, BackEdge) :
              \A i \in Between(LoadLines, BodyLabelAt, BackEdge) : b < i
        /\ TrimLine(buffer[BackEdge]) = <<"br", "label", "%">> \o ForCond

\* for (let j = 1; i; i) { let x = 1; }
ForEmittedInOrderWitness ==
    /\ ForLowered
    /\ LoweredFor.initializer = <<VariableDeclarationList>>
    /\ IsLoad(LoweredFor.expression)
    /\ IsLoad(LoweredFor.incrementor)
    /\ LoweredFor.children[1].kind = "VariableStatement"

\* ------------------------------------------------------------------------
\* C26: when the module being walked imports f from a module D that
\* defines f with a body, a call to f is emitted as a call to D_f,
\* whatever modules were walked in between and whatever functions they
\* define.
\* ------------------------------------------------------------------------

\* the modules walked after the named one and before the current one
WalkedAfter(name) ==
    {walkedModules[k].name :
        k \in {i \in 1..Len(walkedModules) :
                  \E j \in 1..(i - 1) : walkedModules[j].name = name}}

\* the function the named module defines under the name, if any
DefinitionsIn(module, name) ==
    {FunctionsOf(module)[i] :
        i \in {k \in 1..Len(FunctionsOf(module)) :
                  FunctionsOf(module)[k].name = name}}

ImportedCallReachesDefinition ==
    (CallerLowered /\ LoweredCall.object = <<>>) =>
        \A D \in WalkedNames : \A f \in CalleeNames :
           (/\ LoweredCall.callee \in DOMAIN importMap
            /\ importMap[LoweredCall.callee] = D \o <<"_">> \o f
            /\ DefinitionsIn(D, f) # {}
            /\ \A node \in DefinitionsIn(D, f) : ~isMethod(node))
           => CallsOnly(D \o <<"_">> \o f)

\* ------------------------------------------------------------------------
\* C27: a call to a name the module being walked neither imports nor
\* defines, and that is no extern, is rejected as an unknown function, even
\* when a module walked earlier defines a function of that name.
\* ------------------------------------------------------------------------

DefinedHere(name) == \E i \in 1..Len(functions) : functions[i].name = name

DefinedEarlier(name) ==
    \E m \in WalkedNames : DefinitionsIn(m, name) # {}

ForeignCallRejected ==
    (/\ CallerLowered
     /\ LoweredCall.object = <<>>
     /\ LoweredCall.callee \notin DOMAIN importMap
     /\ ~DefinedHere(LoweredCall.callee)
     /\ LoweredCall.callee \notin DOMAIN externFunctions) =>
        /\ walkError = "Unknown function"
        /\ EmittedCalls = {}

\* ------------------------------------------------------------------------
\* C28: within one lowered function every alloca defines a register of its
\* own: no two declared variables (parameters, locals of nested or sibling
\* blocks, for initializers) share a register, and no variable's register
\* is that of a generated temporary.
\* ------------------------------------------------------------------------

\* the line of the define that opens the function the line belongs to
DefineOf(l) ==
    LastOf({d \in 1..l : IsDefine(buffer[d])})

IsAlloca(line) == includes(line, "alloca")

DefinesRegister(line) ==
    /\ TrimLine(line) # <<>>
    /\ Head(TrimLine(line)) = "%"
    /\ includes(line, "=")

\* the %register on the left of the = of the line
DefinedRegister(line) ==
    SubSeq(TrimLine(line), 1,
           (CHOOSE i \in 1..Len(TrimLine(line)) : TrimLine(line)[i] = "=") - 1)

AllocaRegistersDistinct ==
    \A a \in 1..Len(buffer) : \A l \in 1..Len(buffer) :
       (/\ a # l
        /\ IsAlloca(buffer[a])
        /\ DefinesRegister(buffer[l])
        /\ DefineOf(a) = DefineOf(l))
       => DefinedRegister(buffer[a]) # DefinedRegister(buffer[l])

\* ------------------------------------------------------------------------
\* C29: resolve() comes to an end on every import graph, cyclic ones
\* included, and no path is handed to the parser twice: a path is in
\* resolved before its imports are followed.
\* ------------------------------------------------------------------------

ParsedAtMostOnce ==
    rPhase = "done" =>
        /\ NoRepeat(parseLog)
        /\ Range(parseLog) \subseteq FilePaths
        /\ resolveError # "notfound" => Range(parseLog) = resolved

\* resolve() has ended on a tree whose entry is on an import cycle through
\* another file, and a file is imported twice
ParsedAtMostOnceWitness ==
    /\ rPhase = "done"
    /\ OnCycle(entryPath)
    /\ entryPath \notin ImportedBy(entryPath)
    /\ Len(parseLog) = 2
    /\ \E p \in FilePaths : Len(files[p]) = 2 /\ files[p][1] = files[p][2]

\* ------------------------------------------------------------------------
\* C30: every file the resolver reached is in the compilation order
\* exactly once, files of different directories with the same basename
\* included: neither takes the other's place in the module table.
\* ------------------------------------------------------------------------

\* positions of the order that hold the module of this path
PositionsOf(p) == {i \in 1..Len(order) : order[i].path = p}

\* two reached files of different directories have one basename
BasenameShared ==
    \E p, q \in resolved : p # q /\ getModuleName(p) = getModuleName(q)

EveryReachedFileOrderedOnce ==
    (rPhase = "done" /\ resolveError = "none") =>
        /\ \A p \in resolved : Cardinality(PositionsOf(p)) = 1
        /\ \A p \in resolved : modules[getModuleName(p)].path = p

====
